---- MODULE Spec2Model ----
(***************************************************************************)
(* The draw pipe of kas-wgpu: the orchestrator DrawPipe (clip regions, one *)
(* render pass per region), the rounded-shape tessellator FlatRound (per   *)
(* pass vertex queues) and the custom-pipe slot; and the Window that owns  *)
(* them: its swap chain, pending toolkit action and timeouts.              *)
(*                                                                         *)
(* Representation of numbers.  An f32 is held in fixed point as twice its  *)
(* value (an integer count of halves); every f32 the modelled inputs       *)
(* produce is such a dyadic value and is exact in f32.  A quotient of two  *)
(* f32 values is kept unevaluated as [num, den], so that a zero divisor    *)
(* stays visible.  A u32 is held as <<high 16 bits, low 16 bits>>.         *)
(***************************************************************************)
EXTENDS Integers, Sequences, FiniteSets, TLC

VARIABLES
    clip_regions,   \* DrawPipe.clip_regions : Vec<Rect>
    passes,         \* FlatRound.passes : Vec<Vec<Vertex>>
    scale_buf,      \* FlatRound.scale_buf, the scale-factor uniform on the GPU
    issued,         \* history: pass indices handed out as Region handles so far
    frame_adds,     \* history: add_clip_region calls since the last render
    queued_for,     \* history: shaped like passes; per vertex, the surface size
                    \*          in effect when the vertex was queued
    last,           \* history: the most recent call, its arguments and the
                    \*          state it started from
    ret,            \* the value returned by the most recent call
    custom,         \* DrawPipe.custom : the custom pipe, as the invoke calls
                    \*          it has received
    sc_desc,        \* Window.sc_desc : <<width, height>> of the swap chain
    hidpi_factor,   \* window.hidpi_factor() of the winit window
    inner_size,     \* window.inner_size() of the winit window (logical)
    queue,          \* Window.queue : the command buffers submitted so far
    action,         \* Widgets.action : the pending TkAction
    sent,           \* history: the actions sent since the last pop_action
    timeouts,       \* Window.timeouts : Vec<(usize, Instant, Option<Duration>)>
    now,            \* Instant::now()
    triggered       \* history: the callbacks triggered by the most recent call

win_vars == <<sc_desc, hidpi_factor, inner_size, queue, action, sent, timeouts,
              now, triggered>>
vars == <<clip_regions, passes, scale_buf, issued, frame_adds, queued_for, last,
          ret, custom, win_vars>>

----------------------------------------------------------------------------
(* Bounds of the model                                                     *)

\* add_clip_region is exercised while the region list is shorter than this
MaxRegions == 3
\* a draw call is exercised while fewer than this many vertices are queued
MaxQueued == 13
\* FlatRound::render is exercised directly for pass indices 0..MaxPass
MaxPass == 9
\* DrawCustom::custom is exercised while the custom pipe has received fewer
\* invoke calls than this
MaxInvokes == 1

----------------------------------------------------------------------------
(* Geometry value types                                                    *)

Coord(x, y) == <<x, y>>
Size(w, h) == <<w, h>>
Rect(pos, size) == [pos |-> pos, size |-> size]

\* i32 / u32 -> f32
f32(i) == 2 * i

\* f32 literals used by the code
F0 == f32(0)
F1 == f32(1)

Vec2(x, y) == <<x, y>>
Vec2_from(c) == Vec2(f32(c[1]), f32(c[2]))
Vec2_splat(v) == Vec2(v, v)
Vec2_add(a, b) == Vec2(a[1] + b[1], a[2] + b[2])
Vec2_sub(a, b) == Vec2(a[1] - b[1], a[2] - b[2])
Vec2_neg(a) == Vec2(0 - a[1], 0 - a[2])
\* multiplication by the literal 0.5
Vec2_half(a) == Vec2(a[1] \div 2, a[2] \div 2)
Vec2_lt(a, b) == a[1] < b[1] /\ a[2] < b[2]
Vec2_le(a, b) == a[1] <= b[1] /\ a[2] <= b[2]
signum(x) == IF x < 0 THEN 0 - F1 ELSE F1
Vec2_sign(a) == Vec2(signum(a[1]), signum(a[2]))

\* a / b * OFFSET, componentwise, unevaluated
Quot(n, d) == [num |-> n, den |-> d]
Vec2_div_offset(a, b) == Vec2(Quot(a[1], b[1]), Quot(a[2], b[2]))

\* f32::max(0.0).min(1.0)
f32_max(a, b) == IF a >= b THEN a ELSE b
f32_min(a, b) == IF a <= b THEN a ELSE b
\* faulty variant of clamp01: no upper limit
clamp01_max_only(r) == f32_max(r, F0)
clamp01(r) == f32_min(f32_max(r, F0), F1)

\* `x as u32` of an i32: two's complement, as <<high half, low half>>
as_u32(x) == <<(x \div 65536) % 65536, x % 65536>>
\* a u32 that is one already
u32(x) == <<x \div 65536, x % 65536>>

Vertex(pos, col, inner, norm, off) ==
    [pos |-> pos, col |-> col, inner |-> inner, norm |-> norm, off |-> off]

----------------------------------------------------------------------------
(* FlatRound: the rounded-shape tessellator.  Each operator takes the      *)
(* value of self.passes and yields its value after the call.               *)

\* Vec::resize(n, vec![]) when n exceeds the length
vec_resize(ps, n) == ps \o [i \in 1..(n - Len(ps)) |-> <<>>]

PassBlock == 8

\* faulty variant of add_vertices: the slice is put in front of the queue
add_vertices_in_front(ps, pass, slice) ==
    LET grown == IF Len(ps) <= pass THEN vec_resize(ps, pass + PassBlock) ELSE ps
    IN  [grown EXCEPT ![pass + 1] = slice \o @]

\* FlatRound::add_vertices
add_vertices(ps, pass, slice) ==
    LET grown == IF Len(ps) <= pass THEN vec_resize(ps, pass + PassBlock) ELSE ps
    IN  [grown EXCEPT ![pass + 1] = @ \o slice]

\* faulty variant of circle: the fourth triangle is left out
circle_three_triangles(ps, pass, rect, inner_radius, col) ==
    LET aa == Vec2_from(rect.pos)
        bb == Vec2_add(aa, Vec2_from(rect.size))
    IN  IF ~Vec2_lt(aa, bb) THEN ps
        ELSE
        LET inner == clamp01(inner_radius)
            ab == Vec2(aa[1], bb[2])
            ba == Vec2(bb[1], aa[2])
            mid == Vec2_half(Vec2_add(aa, bb))
            n0 == Vec2_splat(F0)
            nb == Vec2_sign(Vec2_sub(bb, aa))
            na == Vec2_neg(nb)
            nab == Vec2(na[1], nb[2])
            nba == Vec2(nb[1], na[2])
            p == Vec2_div_offset(nb, Vec2_sub(bb, mid))
            vaa == Vertex(aa, col, inner, na, p)
            vab == Vertex(ab, col, inner, nab, p)
            vba == Vertex(ba, col, inner, nba, p)
            vbb == Vertex(bb, col, inner, nb, p)
            vmid == Vertex(mid, col, inner, n0, p)
        IN  add_vertices(ps, pass, <<
                vba, vmid, vaa,
                vbb, vmid, vba,
                vab, vmid, vbb >>)

\* faulty variant of circle: the last triangle joins opposite corners
circle_diagonal(ps, pass, rect, inner_radius, col) ==
    LET aa == Vec2_from(rect.pos)
        bb == Vec2_add(aa, Vec2_from(rect.size))
    IN  IF ~Vec2_lt(aa, bb) THEN ps
        ELSE
        LET inner == clamp01(inner_radius)
            ab == Vec2(aa[1], bb[2])
            ba == Vec2(bb[1], aa[2])
            mid == Vec2_half(Vec2_add(aa, bb))
            n0 == Vec2_splat(F0)
            nb == Vec2_sign(Vec2_sub(bb, aa))
            na == Vec2_neg(nb)
            nab == Vec2(na[1], nb[2])
            nba == Vec2(nb[1], na[2])
            p == Vec2_div_offset(nb, Vec2_sub(bb, mid))
            vaa == Vertex(aa, col, inner, na, p)
            vab == Vertex(ab, col, inner, nab, p)
            vba == Vertex(ba, col, inner, nba, p)
            vbb == Vertex(bb, col, inner, nb, p)
            vmid == Vertex(mid, col, inner, n0, p)
        IN  add_vertices(ps, pass, <<
                vba, vmid, vaa,
                vbb, vmid, vba,
                vab, vmid, vbb,
                vaa, vmid, vbb >>)

\* faulty variant of circle: returns early only when both sides are zero
circle_any_dim(ps, pass, rect, inner_radius, col) ==
    LET aa == Vec2_from(rect.pos)
        bb == Vec2_add(aa, Vec2_from(rect.size))
    IN  IF ~(aa[1] < bb[1] \/ aa[2] < bb[2]) THEN ps
        ELSE
        LET inner == clamp01(inner_radius)
            ab == Vec2(aa[1], bb[2])
            ba == Vec2(bb[1], aa[2])
            mid == Vec2_half(Vec2_add(aa, bb))
            n0 == Vec2_splat(F0)
            nb == Vec2_sign(Vec2_sub(bb, aa))
            na == Vec2_neg(nb)
            nab == Vec2(na[1], nb[2])
            nba == Vec2(nb[1], na[2])
            p == Vec2_div_offset(nb, Vec2_sub(bb, mid))
            vaa == Vertex(aa, col, inner, na, p)
            vab == Vertex(ab, col, inner, nab, p)
            vba == Vertex(ba, col, inner, nba, p)
            vbb == Vertex(bb, col, inner, nb, p)
            vmid == Vertex(mid, col, inner, n0, p)
        IN  add_vertices(ps, pass, <<
                vba, vmid, vaa,
                vbb, vmid, vba,
                vab, vmid, vbb,
                vaa, vmid, vab >>)

circle(ps, pass, rect, inner_radius, col) ==
    LET aa == Vec2_from(rect.pos)
        bb == Vec2_add(aa, Vec2_from(rect.size))
    IN  IF ~Vec2_lt(aa, bb) THEN ps
        ELSE
        LET inner == clamp01(inner_radius)
            ab == Vec2(aa[1], bb[2])
            ba == Vec2(bb[1], aa[2])
            mid == Vec2_half(Vec2_add(aa, bb))
            n0 == Vec2_splat(F0)
            nb == Vec2_sign(Vec2_sub(bb, aa))
            na == Vec2_neg(nb)
            nab == Vec2(na[1], nb[2])
            nba == Vec2(nb[1], na[2])
            p == Vec2_div_offset(nb, Vec2_sub(bb, mid))
            vaa == Vertex(aa, col, inner, na, p)
            vab == Vertex(ab, col, inner, nab, p)
            vba == Vertex(ba, col, inner, nba, p)
            vbb == Vertex(bb, col, inner, nb, p)
            vmid == Vertex(mid, col, inner, n0, p)
        IN  add_vertices(ps, pass, <<
                vba, vmid, vaa,
                vbb, vmid, vba,
                vab, vmid, vbb,
                vaa, vmid, vab >>)

\* f32 arithmetic used by line, on values that are multiples of one half
f32_mul(a, b) == (a * b) \div 2
f32_div(a, b) == (2 * a) \div b
f32_sqrt(x) == CHOOSE s \in 0..x : s * s = 2 * x
Vec2_mul(a, s) == Vec2(f32_mul(a[1], s), f32_mul(a[2], s))
Vec2_div(a, s) == Vec2(f32_div(a[1], s), f32_div(a[2], s))

\* `radius as i32`: truncation towards zero
f32_as_i32(x) == IF x >= 0 THEN x \div 2 ELSE 0 - ((0 - x) \div 2)
\* `(radius * 2.0) as u32`, the values the cast can give: truncation; of a
\* negative value 0 where the cast saturates, and an unspecified value (for
\* which 3 stands) where the compiler leaves an out-of-range cast undefined
f32_as_u32(x) == IF x >= 0 THEN { x \div 2 } ELSE { 0, 3 }

Coord_uniform(v) == Coord(v, v)
Size_uniform(v) == Size(v, v)
Coord_sub(a, b) == Coord(a[1] - b[1], a[2] - b[2])

\* the bounding rect line hands to circle when p1 == p2; cast is the value
\* `(radius * 2.0) as u32` gave
line_rect(p1, radius, cast) ==
    Rect(Coord_sub(p1, Coord_uniform(f32_as_i32(radius))), Size_uniform(cast))

\* faulty variant of line: the body of the capsule is left out
line_caps_only(ps, pass, p1, p2, radius, col, cast) ==
    IF p1 = p2
    THEN circle(ps, pass, line_rect(p1, radius, cast), radius, col)
    ELSE
    LET q1 == Vec2_from(p1)
        q2 == Vec2_from(p2)
        vx0 == Vec2_sub(q2, q1)
        vx == Vec2_div(Vec2_mul(vx0, radius),
                       f32_sqrt(f32_mul(vx0[1], vx0[1]) + f32_mul(vx0[2], vx0[2])))
        vy == Vec2(0 - vx[2], vx[1])
        n0 == Vec2_splat(F0)
        nb == Vec2_sign(Vec2_add(vx, vy))
        na == Vec2_neg(nb)
        p == Vec2_splat(Quot(F1, radius))
        ma1 == Vertex(Vec2_sub(q1, vy), col, F0, Vec2(F0, na[2]), p)
        mb1 == Vertex(Vec2_add(q1, vy), col, F0, Vec2(F0, nb[2]), p)
        aa1 == Vertex(Vec2_sub(ma1.pos, vx), col, F0, Vec2(na[1], na[2]), p)
        ab1 == Vertex(Vec2_sub(mb1.pos, vx), col, F0, Vec2(na[1], nb[2]), p)
        ma2 == Vertex(Vec2_sub(q2, vy), col, F0, Vec2(F0, na[2]), p)
        mb2 == Vertex(Vec2_add(q2, vy), col, F0, Vec2(F0, nb[2]), p)
        ba2 == Vertex(Vec2_add(ma2.pos, vx), col, F0, Vec2(nb[1], na[2]), p)
        bb2 == Vertex(Vec2_add(mb2.pos, vx), col, F0, Vec2(nb[1], nb[2]), p)
        v1 == Vertex(q1, col, F0, n0, p)
        v2 == Vertex(q2, col, F0, n0, p)
    IN  add_vertices(ps, pass, <<
            ab1, v1, mb1,
            aa1, v1, ab1,
            ma1, v1, aa1,
            mb2, v2, bb2,
            bb2, v2, ba2,
            ba2, v2, ma2 >>)

\* FlatRound::line
line(ps, pass, p1, p2, radius, col, cast) ==
    IF p1 = p2
    THEN circle(ps, pass, line_rect(p1, radius, cast), radius, col)
    ELSE
    LET q1 == Vec2_from(p1)
        q2 == Vec2_from(p2)
        vx0 == Vec2_sub(q2, q1)
        vx == Vec2_div(Vec2_mul(vx0, radius),
                       f32_sqrt(f32_mul(vx0[1], vx0[1]) + f32_mul(vx0[2], vx0[2])))
        vy == Vec2(0 - vx[2], vx[1])
        n0 == Vec2_splat(F0)
        nb == Vec2_sign(Vec2_add(vx, vy))
        na == Vec2_neg(nb)
        p == Vec2_splat(Quot(F1, radius))
        ma1 == Vertex(Vec2_sub(q1, vy), col, F0, Vec2(F0, na[2]), p)
        mb1 == Vertex(Vec2_add(q1, vy), col, F0, Vec2(F0, nb[2]), p)
        aa1 == Vertex(Vec2_sub(ma1.pos, vx), col, F0, Vec2(na[1], na[2]), p)
        ab1 == Vertex(Vec2_sub(mb1.pos, vx), col, F0, Vec2(na[1], nb[2]), p)
        ma2 == Vertex(Vec2_sub(q2, vy), col, F0, Vec2(F0, na[2]), p)
        mb2 == Vertex(Vec2_add(q2, vy), col, F0, Vec2(F0, nb[2]), p)
        ba2 == Vertex(Vec2_add(ma2.pos, vx), col, F0, Vec2(nb[1], na[2]), p)
        bb2 == Vertex(Vec2_add(mb2.pos, vx), col, F0, Vec2(nb[1], nb[2]), p)
        v1 == Vertex(q1, col, F0, n0, p)
        v2 == Vertex(q2, col, F0, n0, p)
    IN  add_vertices(ps, pass, <<
            ab1, v1, mb1,
            aa1, v1, ab1,
            ma1, v1, aa1,
            mb1, v1, mb2,
            mb2, v1, v2,
            mb2, v2, bb2,
            bb2, v2, ba2,
            ba2, v2, ma2,
            ma2, v2, v1,
            v1, ma1, ma2 >>)

\* faulty variant of frame_corners: an inner max corner outside outer is
\* collapsed to outer's top-left
frame_corners_collapse(aa, bb, cc0, dd0) ==
    LET cc == IF ~Vec2_le(aa, cc0) \/ ~Vec2_le(cc0, bb) THEN aa ELSE cc0
        dd1 == IF ~Vec2_le(aa, dd0) \/ ~Vec2_le(dd0, bb) THEN aa ELSE dd0
        dd == IF ~Vec2_le(cc, dd1) THEN cc ELSE dd1
    IN  [cc |-> cc, dd |-> dd]

\* faulty variant of frame_corners: each coordinate is corrected on its own
frame_corners_per_dim(aa, bb, cc0, dd0) ==
    LET fix(lo, hi, v, to) == IF ~(lo <= v) \/ ~(v <= hi) THEN to ELSE v
        cc == Vec2(fix(aa[1], bb[1], cc0[1], aa[1]), fix(aa[2], bb[2], cc0[2], aa[2]))
        dd1 == Vec2(fix(aa[1], bb[1], dd0[1], bb[1]), fix(aa[2], bb[2], dd0[2], bb[2]))
        dd == IF ~Vec2_le(cc, dd1) THEN cc ELSE dd1
    IN  [cc |-> cc, dd |-> dd]

\* faulty variant of frame_corners: the first two steps test the lower
\* limit only
frame_corners_lower_only(aa, bb, cc0, dd0) ==
    LET cc == IF ~Vec2_le(aa, cc0) THEN aa ELSE cc0
        dd1 == IF ~Vec2_le(aa, dd0) THEN bb ELSE dd0
        dd == IF ~Vec2_le(cc, dd1) THEN cc ELSE dd1
    IN  [cc |-> cc, dd |-> dd]

\* faulty variant of frame_corners: containment is tested strictly
frame_corners_strict(aa, bb, cc0, dd0) ==
    LET cc == IF ~Vec2_lt(aa, cc0) \/ ~Vec2_lt(cc0, bb) THEN aa ELSE cc0
        dd1 == IF ~Vec2_lt(aa, dd0) \/ ~Vec2_lt(dd0, bb) THEN bb ELSE dd0
        dd == IF ~Vec2_le(cc, dd1) THEN cc ELSE dd1
    IN  [cc |-> cc, dd |-> dd]

\* the input sanitation of rounded_frame: the corners cc, dd it builds with
frame_corners(aa, bb, cc0, dd0) ==
    LET cc == IF ~Vec2_le(aa, cc0) \/ ~Vec2_le(cc0, bb) THEN aa ELSE cc0
        dd1 == IF ~Vec2_le(aa, dd0) \/ ~Vec2_le(dd0, bb) THEN bb ELSE dd0
        dd == IF ~Vec2_le(cc, dd1) THEN cc ELSE dd1
    IN  [cc |-> cc, dd |-> dd]

\* faulty variant of rounded_frame: returns early only when outer has
\* neither width nor height
rounded_frame_any_dim(ps, pass, outer, inner_rect, inner_radius, col) ==
    LET aa == Vec2_from(outer.pos)
        bb == Vec2_add(aa, Vec2_from(outer.size))
        cc0 == Vec2_from(inner_rect.pos)
        dd0 == Vec2_add(cc0, Vec2_from(inner_rect.size))
    IN  IF ~(aa[1] < bb[1] \/ aa[2] < bb[2]) THEN ps
        ELSE
        LET san == frame_corners(aa, bb, cc0, dd0)
            cc == san.cc
            dd == san.dd
            inner == clamp01(inner_radius)
            ab == Vec2(aa[1], bb[2])
            ba == Vec2(bb[1], aa[2])
            cd == Vec2(cc[1], dd[2])
            dc == Vec2(dd[1], cc[2])
            n0 == Vec2_splat(F0)
            nb == Vec2_sign(Vec2_sub(bb, aa))
            na == Vec2_neg(nb)
            nab == Vec2(na[1], nb[2])
            nba == Vec2(nb[1], na[2])
            na0 == Vec2(na[1], F0)
            nb0 == Vec2(nb[1], F0)
            n0a == Vec2(F0, na[2])
            n0b == Vec2(F0, nb[2])
            paa == Vec2_div_offset(na, Vec2_sub(aa, cc))
            pab == Vec2_div_offset(nab, Vec2_sub(ab, cd))
            pba == Vec2_div_offset(nba, Vec2_sub(ba, dc))
            pbb == Vec2_div_offset(nb, Vec2_sub(bb, dd))
            vab == Vertex(ab, col, inner, nab, pab)
            vba == Vertex(ba, col, inner, nba, pba)
            vcd == Vertex(cd, col, inner, n0, pab)
            vdc == Vertex(dc, col, inner, n0, pba)
            vac == Vertex(Vec2(aa[1], cc[2]), col, inner, na0, paa)
            vad == Vertex(Vec2(aa[1], dd[2]), col, inner, na0, pab)
            vbc == Vertex(Vec2(bb[1], cc[2]), col, inner, nb0, pba)
            vbd == Vertex(Vec2(bb[1], dd[2]), col, inner, nb0, pbb)
            vca == Vertex(Vec2(cc[1], aa[2]), col, inner, n0a, paa)
            vcb == Vertex(Vec2(cc[1], bb[2]), col, inner, n0b, pab)
            vda == Vertex(Vec2(dd[1], aa[2]), col, inner, n0a, pba)
            vdb == Vertex(Vec2(dd[1], bb[2]), col, inner, n0b, pbb)
            vaa == Vertex(aa, col, inner, na, paa)
            vbb == Vertex(bb, col, inner, nb, pbb)
            vcc == Vertex(cc, col, inner, n0, paa)
            vdd == Vertex(dd, col, inner, n0, pbb)
        IN  add_vertices(ps, pass, <<
                vba, vdc, vda,
                vda, vdc, vca,
                vdc, vcc, vca,
                vca, vcc, vaa,
                vaa, vcc, vac,
                vac, vcc, vcd,
                vac, vcd, vad,
                vad, vcd, vab,
                vab, vcd, vcb,
                vcb, vcd, vdd,
                vcb, vdd, vdb,
                vdb, vdd, vbb,
                vbb, vdd, vbd,
                vbd, vdd, vdc,
                vbd, vdc, vbc,
                vbc, vdc, vba >>)

rounded_frame(ps, pass, outer, inner_rect, inner_radius, col) ==
    LET aa == Vec2_from(outer.pos)
        bb == Vec2_add(aa, Vec2_from(outer.size))
        cc0 == Vec2_from(inner_rect.pos)
        dd0 == Vec2_add(cc0, Vec2_from(inner_rect.size))
    IN  IF ~Vec2_lt(aa, bb) THEN ps
        ELSE
        LET san == frame_corners(aa, bb, cc0, dd0)
            cc == san.cc
            dd == san.dd
            inner == clamp01(inner_radius)
            ab == Vec2(aa[1], bb[2])
            ba == Vec2(bb[1], aa[2])
            cd == Vec2(cc[1], dd[2])
            dc == Vec2(dd[1], cc[2])
            n0 == Vec2_splat(F0)
            nb == Vec2_sign(Vec2_sub(bb, aa))
            na == Vec2_neg(nb)
            nab == Vec2(na[1], nb[2])
            nba == Vec2(nb[1], na[2])
            na0 == Vec2(na[1], F0)
            nb0 == Vec2(nb[1], F0)
            n0a == Vec2(F0, na[2])
            n0b == Vec2(F0, nb[2])
            paa == Vec2_div_offset(na, Vec2_sub(aa, cc))
            pab == Vec2_div_offset(nab, Vec2_sub(ab, cd))
            pba == Vec2_div_offset(nba, Vec2_sub(ba, dc))
            pbb == Vec2_div_offset(nb, Vec2_sub(bb, dd))
            vab == Vertex(ab, col, inner, nab, pab)
            vba == Vertex(ba, col, inner, nba, pba)
            vcd == Vertex(cd, col, inner, n0, pab)
            vdc == Vertex(dc, col, inner, n0, pba)
            vac == Vertex(Vec2(aa[1], cc[2]), col, inner, na0, paa)
            vad == Vertex(Vec2(aa[1], dd[2]), col, inner, na0, pab)
            vbc == Vertex(Vec2(bb[1], cc[2]), col, inner, nb0, pba)
            vbd == Vertex(Vec2(bb[1], dd[2]), col, inner, nb0, pbb)
            vca == Vertex(Vec2(cc[1], aa[2]), col, inner, n0a, paa)
            vcb == Vertex(Vec2(cc[1], bb[2]), col, inner, n0b, pab)
            vda == Vertex(Vec2(dd[1], aa[2]), col, inner, n0a, pba)
            vdb == Vertex(Vec2(dd[1], bb[2]), col, inner, n0b, pbb)
            vaa == Vertex(aa, col, inner, na, paa)
            vbb == Vertex(bb, col, inner, nb, pbb)
            vcc == Vertex(cc, col, inner, n0, paa)
            vdd == Vertex(dd, col, inner, n0, pbb)
        IN  add_vertices(ps, pass, <<
                vba, vdc, vda,
                vda, vdc, vca,
                vdc, vcc, vca,
                vca, vcc, vaa,
                vaa, vcc, vac,
                vac, vcc, vcd,
                vac, vcd, vad,
                vad, vcd, vab,
                vab, vcd, vcb,
                vcb, vcd, vdd,
                vcb, vdd, vdb,
                vdb, vdd, vbb,
                vbb, vdd, vbd,
                vbd, vdd, vdc,
                vbd, vdc, vbc,
                vbc, vdc, vba >>)

\* faulty variant of FlatRound_render: the queue is not cleared
FlatRound_render_no_clear(ps, pass) ==
    IF pass >= Len(ps) THEN [passes |-> ps, rpass |-> <<>>]
    ELSE
    LET v == ps[pass + 1]
    IN  [passes |-> ps,
         rpass |-> << [op |-> "set_pipeline", pipe |-> "flat_round"],
                      [op |-> "set_bind_group", pipe |-> "flat_round"],
                      [op |-> "set_vertex_buffers", buffer |-> v],
                      [op |-> "draw", first |-> 0, count |-> Len(v)] >>]

\* faulty variant of FlatRound_render: a missing queue slot is created and
\* drawn like an empty one
FlatRound_render_grow(ps, pass) ==
    LET grown == IF pass >= Len(ps) THEN vec_resize(ps, pass + 1) ELSE ps
        v == grown[pass + 1]
    IN  [passes |-> [grown EXCEPT ![pass + 1] = <<>>],
         rpass |-> << [op |-> "set_pipeline", pipe |-> "flat_round"],
                      [op |-> "set_bind_group", pipe |-> "flat_round"],
                      [op |-> "set_vertex_buffers", buffer |-> v],
                      [op |-> "draw", first |-> 0, count |-> Len(v)] >>]

\* FlatRound::render: the queues afterwards and the commands recorded into
\* the open render pass
FlatRound_render(ps, pass) ==
    IF pass >= Len(ps) THEN [passes |-> ps, rpass |-> <<>>]
    ELSE
    LET v == ps[pass + 1]
    IN  [passes |-> [ps EXCEPT ![pass + 1] = <<>>],
         rpass |-> << [op |-> "set_pipeline", pipe |-> "flat_round"],
                      [op |-> "set_bind_group", pipe |-> "flat_round"],
                      [op |-> "set_vertex_buffers", buffer |-> v],
                      [op |-> "draw", first |-> 0, count |-> Len(v)] >>]

\* the scale factor [2.0 / size.0 as f32, 2.0 / size.1 as f32]
scale_factor(size) == <<Quot(f32(2), f32(size[1])), Quot(f32(2), f32(size[2]))>>

----------------------------------------------------------------------------
(* DrawPipe: the orchestrator                                              *)

\* DrawPipe::new: the region list holds region 0, the whole window
DrawPipe_new(size) == << Rect(Coord(0, 0), size) >>

\* faulty variant of add_clip_region: the length is read after the push
add_clip_region_len_after(regions, region) ==
    LET pushed == Append(regions, region)
    IN  [clip_regions |-> pushed, ret |-> [Region |-> Len(pushed)]]

\* Draw::add_clip_region: the region list afterwards and the handle returned
add_clip_region(regions, region) ==
    LET pass == Len(regions)
    IN  [clip_regions |-> Append(regions, region), ret |-> [Region |-> pass]]

\* CustomPipe::invoke(pass, rect, param) of a pipe that keeps what it is given
invoke(pipe, pass, rect, param) ==
    Append(pipe, [pass |-> pass, rect |-> rect, param |-> param])

\* faulty variant of DrawPipe_custom: the pipe is invoked for pass 0
DrawPipe_custom_root_pass(pipe, region, rect, param) ==
    invoke(pipe, 0, rect, param)

\* DrawCustom::custom for DrawPipe: the custom pipe afterwards
DrawPipe_custom(pipe, region, rect, param) ==
    invoke(pipe, region.Region, rect, param)

\* a sub-pipeline's render(device, pass, rpass) being called
call_render(pipe, pass) == [op |-> "render", pipe |-> pipe, pass |-> pass]

\* faulty variant of region_pass: the tessellator renders the next pass
region_pass_next_queue(regions, pass, ps, load_op) ==
    LET region == regions[pass + 1]
        fr == FlatRound_render(ps, pass + 1)
    IN  [passes |-> fr.passes,
         encoder |->
            << [op |-> "begin_render_pass", load_op |-> load_op],
               [op |-> "set_scissor_rect",
                x |-> as_u32(region.pos[1]), y |-> as_u32(region.pos[2]),
                w |-> u32(region.size[1]), h |-> u32(region.size[2])],
               call_render("shaded_square", pass),
               call_render("shaded_round", pass),
               call_render("custom", pass),
               call_render("flat_round", pass) >>
            \o fr.rpass
            \o << [op |-> "drop_rpass"] >>]

\* faulty variant of region_pass: every pass clears the frame
region_pass_always_clear(regions, pass, ps, load_op) ==
    LET region == regions[pass + 1]
        fr == FlatRound_render(ps, pass)
    IN  [passes |-> fr.passes,
         encoder |->
            << [op |-> "begin_render_pass", load_op |-> "Clear"],
               [op |-> "set_scissor_rect",
                x |-> as_u32(region.pos[1]), y |-> as_u32(region.pos[2]),
                w |-> u32(region.size[1]), h |-> u32(region.size[2])],
               call_render("shaded_square", pass),
               call_render("shaded_round", pass),
               call_render("custom", pass),
               call_render("flat_round", pass) >>
            \o fr.rpass
            \o << [op |-> "drop_rpass"] >>]

\* faulty variant of region_pass: the custom pipe is rendered last
region_pass_custom_last(regions, pass, ps, load_op) ==
    LET region == regions[pass + 1]
        fr == FlatRound_render(ps, pass)
    IN  [passes |-> fr.passes,
         encoder |->
            << [op |-> "begin_render_pass", load_op |-> load_op],
               [op |-> "set_scissor_rect",
                x |-> as_u32(region.pos[1]), y |-> as_u32(region.pos[2]),
                w |-> u32(region.size[1]), h |-> u32(region.size[2])],
               call_render("shaded_square", pass),
               call_render("shaded_round", pass),
               call_render("flat_round", pass) >>
            \o fr.rpass
            \o << call_render("custom", pass), [op |-> "drop_rpass"] >>]

\* one iteration of the loop over clip_regions in DrawPipe::render: the
\* commands recorded for region number `pass` and the tessellator's queues
\* afterwards.  The shaded pipelines and the custom pipe appear as the call
\* made to them.
region_pass(regions, pass, ps, load_op) ==
    LET region == regions[pass + 1]
        fr == FlatRound_render(ps, pass)
    IN  [passes |-> fr.passes,
         encoder |->
            << [op |-> "begin_render_pass", load_op |-> load_op],
               [op |-> "set_scissor_rect",
                x |-> as_u32(region.pos[1]), y |-> as_u32(region.pos[2]),
                w |-> u32(region.size[1]), h |-> u32(region.size[2])],
               call_render("shaded_square", pass),
               call_render("shaded_round", pass),
               call_render("custom", pass),
               call_render("flat_round", pass) >>
            \o fr.rpass
            \o << [op |-> "drop_rpass"] >>]

RECURSIVE render_loop(_, _, _, _, _)
render_loop(regions, pass, ps, load_op, encoder) ==
    IF pass >= Len(regions) THEN [passes |-> ps, encoder |-> encoder]
    ELSE LET it == region_pass(regions, pass, ps, load_op)
         IN  render_loop(regions, pass + 1, it.passes, "Load",
                         encoder \o it.encoder)

\* glyph_brush.draw_queued(device, encoder, frame_view, size.0, size.1)
draw_queued(size) == [op |-> "draw_queued", w |-> u32(size[1]), h |-> u32(size[2])]

\* faulty variant of DrawPipe_render: the region list is not truncated
DrawPipe_render_no_truncate(regions, ps) ==
    LET done == render_loop(regions, 0, ps, "Clear", <<>>)
        size == regions[1].size
    IN  [clip_regions |-> regions,
         passes |-> done.passes,
         ret |-> done.encoder \o << draw_queued(size) >>]

\* DrawPipe::render: region list and tessellator queues afterwards, and the
\* command buffer returned
DrawPipe_render(regions, ps) ==
    LET done == render_loop(regions, 0, ps, "Clear", <<>>)
        size == regions[1].size
    IN  [clip_regions |-> SubSeq(regions, 1, 1),
         passes |-> done.passes,
         ret |-> done.encoder \o << draw_queued(size) >>]

\* a sub-pipeline's resize(device, encoder, size) being called
call_resize(pipe, size) == [op |-> "resize", pipe |-> pipe, size |-> size]

\* FlatRound::resize: the copy into scale_buf it records
FlatRound_resize(size) ==
    [op |-> "copy_buffer_to_buffer", dst |-> "flat_round.scale_buf",
     data |-> scale_factor(size)]

\* faulty variant of DrawPipe_resize: region 0 keeps its old size
DrawPipe_resize_stale_region(regions, size) ==
    [clip_regions |-> regions,
     ret |-> << call_resize("shaded_square", size),
                call_resize("shaded_round", size),
                call_resize("custom", size),
                call_resize("flat_round", size),
                FlatRound_resize(size) >>]

\* faulty variant of DrawPipe_resize: every region is given the new size
DrawPipe_resize_all_regions(regions, size) ==
    [clip_regions |-> [i \in 1..Len(regions) |-> [regions[i] EXCEPT !.size = size]],
     ret |-> << call_resize("shaded_square", size),
                call_resize("shaded_round", size),
                call_resize("custom", size),
                call_resize("flat_round", size),
                FlatRound_resize(size) >>]

\* faulty variant of DrawPipe_resize: the custom pipeline is not resized
DrawPipe_resize_skip_custom(regions, size) ==
    [clip_regions |-> [regions EXCEPT ![1].size = size],
     ret |-> << call_resize("shaded_square", size),
                call_resize("shaded_round", size),
                call_resize("flat_round", size),
                FlatRound_resize(size) >>]

\* DrawPipe::resize: region list afterwards and the command buffer returned
DrawPipe_resize(regions, size) ==
    [clip_regions |-> [regions EXCEPT ![1].size = size],
     ret |-> << call_resize("shaded_square", size),
                call_resize("shaded_round", size),
                call_resize("custom", size),
                call_resize("flat_round", size),
                FlatRound_resize(size) >>]

\* queue.submit(&[buf]): the scale-factor uniform after the copies in buf
RECURSIVE submit(_, _)
submit(scale, buf) ==
    IF buf = <<>> THEN scale
    ELSE submit(IF Head(buf).op = "copy_buffer_to_buffer"
                   THEN Head(buf).data ELSE scale,
                Tail(buf))

----------------------------------------------------------------------------
(* The calls a frame is made of.  Inputs of the orchestrator-level         *)
(* specification are few; the tessellator's input handling is exercised    *)
(* over a wide range by SpecTess below.                                    *)

Sizes == { Size(4, 4), Size(6, 4) }
Regions == { Rect(Coord(1, 1), Size(2, 2)), Rect(Coord(-1, 0), Size(3, 3)) }
Colours == { "red" }
CircleRects == { Rect(Coord(0, 0), Size(2, 2)) }
FramePairs == { <<Rect(Coord(0, 0), Size(4, 4)), Rect(Coord(1, 1), Size(2, 2))>> }
Radii == { f32(1) }
\* the opaque parameter of the custom pipe
Params == { "param" }
LineEnds == { <<Coord(0, 0), Coord(2, 0)>> }

RECURSIVE TotalQueued(_)
TotalQueued(ps) == IF ps = <<>> THEN 0 ELSE Len(Head(ps)) + TotalQueued(Tail(ps))

QueueLen(ps, pass) == IF pass < Len(ps) THEN Len(ps[pass + 1]) ELSE 0

pre_state == [clip_regions |-> clip_regions, passes |-> passes,
              queued_for |-> queued_for, scale_buf |-> scale_buf,
              custom |-> custom]

\* the draw pipe driven directly: the fields of Window and Widgets are not
\* used and rest at fixed values
NoWindow ==
    /\ sc_desc = Size(0, 0)
    /\ hidpi_factor = F1
    /\ inner_size = Size(0, 0)
    /\ queue = <<>>
    /\ action = "None"
    /\ sent = {}
    /\ timeouts = <<>>
    /\ now = 0
    /\ triggered = <<>>

\* history of a draw call that took self.passes to ps2
tagged(ps2, pass) ==
    LET n == QueueLen(ps2, pass) - QueueLen(passes, pass)
    IN  IF n = 0 THEN queued_for
        ELSE add_vertices(queued_for, pass, [i \in 1..n |-> clip_regions[1].size])

Init ==
    \E size \in Sizes :
        /\ clip_regions = DrawPipe_new(size)
        /\ passes = <<>>
        /\ scale_buf = scale_factor(size)
        /\ issued = {0}
        /\ frame_adds = 0
        /\ queued_for = <<>>
        /\ last = [op |-> "new", size |-> size]
        /\ ret = "unit"
        /\ custom = <<>>
        /\ NoWindow

AddClipRegion ==
    /\ Len(clip_regions) < MaxRegions
    /\ \E rect \in Regions :
        LET r == add_clip_region(clip_regions, rect)
        IN  /\ clip_regions' = r.clip_regions
            /\ ret' = r.ret
            /\ issued' = issued \cup {r.ret.Region}
            /\ frame_adds' = frame_adds + 1
            /\ last' = [op |-> "add_clip_region", rect |-> rect, pre |-> pre_state]
    /\ UNCHANGED <<custom, win_vars, passes, scale_buf, queued_for>>

\* DrawRounded::circle with any handle handed out so far
Circle ==
    /\ TotalQueued(passes) < MaxQueued
    /\ \E pass \in issued, rect \in CircleRects, r \in Radii, col \in Colours :
        LET ps2 == circle(passes, pass, rect, r, col)
        IN  /\ passes' = ps2
            /\ queued_for' = tagged(ps2, pass)
            /\ last' = [op |-> "circle", pass |-> pass, rect |-> rect,
                        inner_radius |-> r, col |-> col, pre |-> pre_state]
    /\ ret' = "unit"
    /\ UNCHANGED <<custom, win_vars, clip_regions, scale_buf, issued, frame_adds>>

\* DrawRounded::rounded_frame with any handle handed out so far
RoundedFrame ==
    /\ TotalQueued(passes) < MaxQueued
    /\ \E pass \in issued, pair \in FramePairs, r \in Radii, col \in Colours :
        LET ps2 == rounded_frame(passes, pass, pair[1], pair[2], r, col)
        IN  /\ passes' = ps2
            /\ queued_for' = tagged(ps2, pass)
            /\ last' = [op |-> "rounded_frame", pass |-> pass, outer |-> pair[1],
                        inner |-> pair[2], inner_radius |-> r, col |-> col,
                        pre |-> pre_state]
    /\ ret' = "unit"
    /\ UNCHANGED <<custom, win_vars, clip_regions, scale_buf, issued, frame_adds>>

\* DrawRounded::rounded_line with any handle handed out so far
RoundedLine ==
    /\ TotalQueued(passes) < MaxQueued
    /\ \E pass \in issued, ends \in LineEnds, r \in Radii, col \in Colours :
      \E cast \in f32_as_u32(f32_mul(r, f32(2))) :
        LET ps2 == line(passes, pass, ends[1], ends[2], r, col, cast)
        IN  /\ passes' = ps2
            /\ queued_for' = tagged(ps2, pass)
            /\ last' = [op |-> "line", pass |-> pass, p1 |-> ends[1],
                        p2 |-> ends[2], radius |-> r, col |-> col,
                        cast |-> cast, pre |-> pre_state]
    /\ ret' = "unit"
    /\ UNCHANGED <<custom, win_vars, clip_regions, scale_buf, issued, frame_adds>>

\* DrawCustom::custom with any handle handed out so far
Custom ==
    /\ Len(custom) < MaxInvokes
    /\ \E pass \in issued, rect \in CircleRects, param \in Params :
        /\ custom' = DrawPipe_custom(custom, [Region |-> pass], rect, param)
        /\ last' = [op |-> "custom", pass |-> pass, rect |-> rect,
                    param |-> param, pre |-> pre_state]
    /\ ret' = "unit"
    /\ UNCHANGED <<win_vars, clip_regions, passes, scale_buf, issued,
                   frame_adds, queued_for>>

\* DrawPipe::resize; the caller submits the returned buffer at once
Resize ==
    \E size \in Sizes :
        LET r == DrawPipe_resize(clip_regions, size)
        IN  /\ clip_regions' = r.clip_regions
            /\ ret' = r.ret
            /\ scale_buf' = submit(scale_buf, r.ret)
            /\ last' = [op |-> "resize", size |-> size, pre |-> pre_state]
            /\ UNCHANGED <<custom, win_vars, passes, issued, frame_adds, queued_for>>

\* DrawPipe::render; the caller submits the returned buffer at once
Render ==
    LET r == DrawPipe_render(clip_regions, passes)
    IN  /\ clip_regions' = r.clip_regions
        /\ passes' = r.passes
        /\ ret' = r.ret
        /\ queued_for' = DrawPipe_render(clip_regions, queued_for).passes
        /\ last' = [op |-> "render", pre |-> pre_state]
        /\ frame_adds' = 0
        /\ UNCHANGED <<custom, win_vars, scale_buf, issued>>

Next ==
    AddClipRegion \/ Circle \/ RoundedFrame \/ RoundedLine \/ Resize \/ Render

Spec == Init /\ [][Next]_vars

\* the draw pipe with a custom pipe that is drawn to
CustomNext == AddClipRegion \/ Circle \/ Custom \/ Render

SpecCustom == Init /\ [][CustomNext]_vars

----------------------------------------------------------------------------
(* The tessellator on its own: one call of a FlatRound method, made        *)
(* directly, from each of a few queue states the program reaches, over a   *)
(* wide range of inputs.                                                   *)

\* FlatRound::render is called directly for pass indices 0..MaxPass
\* (MaxPass, above), the shapes are queued into passes 0..TessMaxDrawPass
TessMaxDrawPass == 1
\* rectangle positions range over -MaxNeg..MaxPos, sizes over 0..MaxSize
MaxNeg == 1
MaxPos == 3
MaxSize == 2

TessRadii == { f32(-1), f32(0), 1, f32(1), f32(2) }
FrameRadii == { f32(-1), 1, f32(2) }
OuterRects == { Rect(Coord(0, 0), Size(2, 2)), Rect(Coord(1, 0), Size(3, 2)),
                Rect(Coord(0, 0), Size(0, 2)), Rect(Coord(1, 1), Size(2, 0)) }
InnerRects == { Rect(Coord(x, y), Size(w, h)) :
                    x \in (0 - MaxNeg)..MaxPos, y \in (0 - MaxNeg)..MaxPos,
                    w \in 0..MaxSize, h \in 0..MaxSize }
\* line: end points p1 and p1 + step, radii -1, -0.5, 0, 0.5, 1, 1.5, 2.5
LineStarts == { Coord(0, 0), Coord(1, 0 - 1) }
LineSteps == { Coord(0, 0), Coord(2, 0), Coord(0, 0 - 1), Coord(3, 4),
               Coord(0 - 4, 3) }
LineRadii == { f32(0 - 1), 0 - 1, F0, 1, F1, 3, 5 }
TessCircleRects == { Rect(Coord(x, y), Size(w, h)) :
                    x \in (0 - MaxNeg)..0, y \in (0 - MaxNeg)..0,
                    w \in 0..MaxSize, h \in 0..MaxSize }

\* queue states to start from: nothing drawn yet; one circle in pass 0; that
\* circle rendered; a circle in pass 0 and a frame in pass 1
Q_empty == <<>>
Q_circle == circle(Q_empty, 0, Rect(Coord(0, 0), Size(2, 2)), f32(1), "red")
Q_rendered == FlatRound_render(Q_circle, 0).passes
Q_two == rounded_frame(Q_circle, 1, Rect(Coord(0, 0), Size(4, 4)),
                       Rect(Coord(1, 1), Size(2, 2)), f32(1), "red")
TessQueues == { Q_empty, Q_circle, Q_rendered, Q_two }

TessInit ==
    \E size \in Sizes, q \in TessQueues :
        /\ clip_regions = DrawPipe_new(size)
        /\ passes = q
        /\ scale_buf = scale_factor(size)
        /\ issued = {0}
        /\ frame_adds = 0
        /\ queued_for = [i \in 1..Len(q) |-> [j \in 1..Len(q[i]) |-> size]]
        /\ last = [op |-> "new", size |-> size]
        /\ ret = "unit"
        /\ custom = <<>>
        /\ NoWindow

TCircle ==
    /\ last.op = "new"
    /\ \E pass \in 0..TessMaxDrawPass, rect \in TessCircleRects,
          r \in TessRadii, col \in Colours :
        /\ passes' = circle(passes, pass, rect, r, col)
        /\ last' = [op |-> "circle", pass |-> pass, rect |-> rect,
                    inner_radius |-> r, col |-> col, pre |-> pre_state]
    /\ ret' = "unit"
    /\ UNCHANGED <<custom, win_vars, clip_regions, scale_buf, issued, frame_adds, queued_for>>

TRoundedFrame ==
    /\ last.op = "new"
    /\ \E pass \in 0..TessMaxDrawPass, outer \in OuterRects,
          inner \in InnerRects, r \in FrameRadii, col \in Colours :
        /\ passes' = rounded_frame(passes, pass, outer, inner, r, col)
        /\ last' = [op |-> "rounded_frame", pass |-> pass, outer |-> outer,
                    inner |-> inner, inner_radius |-> r, col |-> col,
                    pre |-> pre_state]
    /\ ret' = "unit"
    /\ UNCHANGED <<custom, win_vars, clip_regions, scale_buf, issued, frame_adds, queued_for>>

\* the arithmetic of line on p1, p2, radius is exact on multiples of one half
line_exact(p1, p2, radius) ==
    IF p1 = p2 THEN TRUE
    ELSE
    LET vx0 == Vec2_sub(Vec2_from(p2), Vec2_from(p1))
        sq == f32_mul(vx0[1], vx0[1]) + f32_mul(vx0[2], vx0[2])
    IN  /\ \E s \in 0..sq : s * s = 2 * sq
        /\ \A d \in 1..2 : (2 * f32_mul(vx0[d], radius)) % f32_sqrt(sq) = 0

TLine ==
    /\ last.op = "new"
    /\ \E pass \in 0..TessMaxDrawPass, p1 \in LineStarts, d \in LineSteps,
          r \in LineRadii, col \in Colours :
      \E cast \in f32_as_u32(f32_mul(r, f32(2))) :
        LET p2 == Coord(p1[1] + d[1], p1[2] + d[2])
        IN  /\ line_exact(p1, p2, r)
            /\ passes' = line(passes, pass, p1, p2, r, col, cast)
            /\ last' = [op |-> "line", pass |-> pass, p1 |-> p1, p2 |-> p2,
                        radius |-> r, col |-> col, cast |-> cast,
                        pre |-> pre_state]
    /\ ret' = "unit"
    /\ UNCHANGED <<custom, win_vars, clip_regions, scale_buf, issued, frame_adds, queued_for>>

\* FlatRound::render(device, pass, rpass); ret holds what it recorded
TRender ==
    /\ last.op = "new"
    /\ \E pass \in 0..MaxPass :
        LET r == FlatRound_render(passes, pass)
        IN  /\ passes' = r.passes
            /\ ret' = r.rpass
            /\ last' = [op |-> "FlatRound::render", pass |-> pass,
                        pre |-> pre_state]
    /\ UNCHANGED <<custom, win_vars, clip_regions, scale_buf, issued, frame_adds, queued_for>>

TessNext == TCircle \/ TRoundedFrame \/ TLine \/ TRender

SpecTess == TessInit /\ [][TessNext]_vars

----------------------------------------------------------------------------
(* Widgets and Window: the pending toolkit action, the swap chain and the  *)
(* handling of window events.                                              *)

\* kas::TkAction, in the order of its variants
TkActions == << "None", "Redraw", "Reconfigure", "Close", "CloseAll" >>
rank(a) == CHOOSE i \in 1..Len(TkActions) : TkActions[i] = a
\* Ord::max on TkAction
TkAction_max(a, b) == IF rank(b) >= rank(a) THEN b ELSE a

\* faulty variant of send_action: the action sent replaces the pending one
send_action_overwrite(pending, a) == a

\* TkWindow::send_action: the pending action afterwards
send_action(pending, a) == TkAction_max(pending, a)

\* send_action for each action of a sequence in turn
RECURSIVE send_all(_, _)
send_all(pending, acts) ==
    IF acts = <<>> THEN pending
    ELSE send_all(send_action(pending, Head(acts)), Tail(acts))

\* Widgets::pop_action: the pending action afterwards and the value returned
pop_action(pending) == [action |-> "None", ret |-> pending]

\* LogicalSize::to_physical(factor) converted into Size; factor is an f32
to_physical(size, factor) ==
    Size((size[1] * factor) \div 2, (size[2] * factor) \div 2)

\* faulty variant of do_resize: the swap-chain descriptor is not updated
do_resize_stale_sc_desc(sc, regions, scale, q, pending, logical, factor, acts) ==
    LET size == to_physical(logical, factor)
    IN  IF size = sc
        THEN [sc_desc |-> sc, clip_regions |-> regions, scale_buf |-> scale,
              queue |-> q, action |-> pending]
        ELSE LET buf == DrawPipe_resize(regions, size)
             IN  [sc_desc |-> sc,
                  clip_regions |-> buf.clip_regions,
                  scale_buf |-> submit(scale, buf.ret),
                  queue |-> Append(q, buf.ret),
                  action |-> send_all(pending, acts)]

\* Window::do_resize; acts are the actions the widget sends from its resize
do_resize(sc, regions, scale, q, pending, logical, factor, acts) ==
    LET size == to_physical(logical, factor)
    IN  IF size = sc
        THEN [sc_desc |-> sc, clip_regions |-> regions, scale_buf |-> scale,
              queue |-> q, action |-> pending]
        ELSE LET buf == DrawPipe_resize(regions, size)
             IN  [sc_desc |-> size,
                  clip_regions |-> buf.clip_regions,
                  scale_buf |-> submit(scale, buf.ret),
                  queue |-> Append(q, buf.ret),
                  action |-> send_all(pending, acts)]

\* Widgets::draw_iter: the draw calls the theme makes for the widgets, one
\* after the other, on the region list and the tessellator's queues
RECURSIVE draw_iter(_, _, _)
draw_iter(regions, ps, calls) ==
    IF calls = <<>> THEN [clip_regions |-> regions, passes |-> ps]
    ELSE LET c == Head(calls)
         IN  IF c.call = "add_clip_region"
             THEN draw_iter(add_clip_region(regions, c.rect).clip_regions, ps,
                            Tail(calls))
             ELSE draw_iter(regions,
                            circle(ps, c.pass, c.rect, c.inner_radius, c.col),
                            Tail(calls))

\* Window::do_draw: Widgets::draw and the submission of its buffer
do_draw(regions, ps, scale, q, calls) ==
    LET drawn == draw_iter(regions, ps, calls)
        buf == DrawPipe_render(drawn.clip_regions, drawn.passes)
    IN  [clip_regions |-> buf.clip_regions, passes |-> buf.passes,
         scale_buf |-> submit(scale, buf.ret),
         queue |-> Append(q, buf.ret)]

\* bound on the command buffers submitted to the queue
MaxSubmits == 3

\* the window's logical inner sizes and DPI factors (1.0 and 1.5)
LogicalSizes == { Size(2, 2), Size(3, 2) }
Factors == { F1, 3 }

\* what a widget sends to the toolkit from one of its handlers
WidgetSends == { <<>>, << "Redraw" >>, << "Reconfigure", "Redraw" >> }

\* what the theme draws for the widget in one frame
WidgetDraws ==
    LET rect == Rect(Coord(0, 0), Size(2, 2))
        disc == [call |-> "circle", pass |-> 0, rect |-> rect,
                 inner_radius |-> F0, col |-> "red"]
    IN  { <<>>,
          << disc >>,
          << [call |-> "add_clip_region", rect |-> rect],
             [disc EXCEPT !.pass = 1] >> }

\* the elements of a sequence
Range(seq) == { seq[i] : i \in 1..Len(seq) }

draw_hist == <<issued, frame_adds, queued_for, custom>>
timer_vars == <<timeouts, now, triggered>>

\* the window's state at the start of a handler
win_pre == [sc_desc |-> sc_desc, clip_regions |-> clip_regions,
            scale_buf |-> scale_buf, queue |-> queue, action |-> action,
            sent |-> sent, hidpi_factor |-> hidpi_factor,
            inner_size |-> inner_size]

\* Window::new: the swap chain and the draw pipe get the window's physical
\* size, and the widget is resized to it
WinInit ==
    \E logical \in LogicalSizes, factor \in Factors, acts \in WidgetSends :
        LET size == to_physical(logical, factor)
        IN  /\ inner_size = logical
            /\ hidpi_factor = factor
            /\ sc_desc = size
            /\ clip_regions = DrawPipe_new(size)
            /\ passes = <<>>
            /\ scale_buf = scale_factor(size)
            /\ queue = <<>>
            /\ action = send_all("None", acts)
            /\ sent = Range(acts)
            /\ timeouts = <<>>
            /\ now = 0
            /\ triggered = <<>>
            /\ issued = {0}
            /\ frame_adds = 0
            /\ queued_for = <<>>
            /\ custom = <<>>
            /\ last = [op |-> "new", size |-> size]
            /\ ret = "unit"

\* handle_event(WindowEvent::Resized(size))
HandleResized ==
    /\ Len(queue) < MaxSubmits
    /\ \E size \in LogicalSizes, acts \in WidgetSends :
        LET w == do_resize(sc_desc, clip_regions, scale_buf, queue, action,
                           size, hidpi_factor, acts)
            p == pop_action(w.action)
        IN  /\ inner_size' = size
            /\ sc_desc' = w.sc_desc
            /\ clip_regions' = w.clip_regions
            /\ scale_buf' = w.scale_buf
            /\ queue' = w.queue
            /\ action' = p.action
            /\ ret' = p.ret
            /\ sent' = {}
            /\ last' = [op |-> "Resized", size |-> size, acts |-> acts,
                        pre |-> win_pre]
    /\ UNCHANGED <<hidpi_factor, passes, draw_hist, timer_vars>>

\* handle_event(WindowEvent::HiDpiFactorChanged(factor)); the window reports
\* the new factor from hidpi_factor()
HandleHiDpiFactorChanged ==
    /\ Len(queue) < MaxSubmits
    /\ \E factor \in Factors, acts \in WidgetSends :
        LET w == do_resize(sc_desc, clip_regions, scale_buf, queue, action,
                           inner_size, factor, acts)
            p == pop_action(w.action)
        IN  /\ hidpi_factor' = factor
            /\ sc_desc' = w.sc_desc
            /\ clip_regions' = w.clip_regions
            /\ scale_buf' = w.scale_buf
            /\ queue' = w.queue
            /\ action' = p.action
            /\ ret' = p.ret
            /\ sent' = {}
            /\ last' = [op |-> "HiDpiFactorChanged", size |-> inner_size,
                        factor |-> factor, acts |-> acts, pre |-> win_pre]
    /\ UNCHANGED <<inner_size, passes, draw_hist, timer_vars>>

\* handle_event(WindowEvent::RedrawRequested)
HandleRedrawRequested ==
    /\ Len(queue) < MaxSubmits
    /\ \E calls \in WidgetDraws :
        LET d == do_draw(clip_regions, passes, scale_buf, queue, calls)
            p == pop_action(action)
        IN  /\ clip_regions' = d.clip_regions
            /\ passes' = d.passes
            /\ scale_buf' = d.scale_buf
            /\ queue' = d.queue
            /\ action' = p.action
            /\ ret' = p.ret
            /\ sent' = {}
            /\ last' = [op |-> "RedrawRequested", calls |-> calls,
                        pre |-> win_pre]
    /\ UNCHANGED <<sc_desc, hidpi_factor, inner_size, draw_hist, timer_vars>>

\* handle_event of any other event: the event manager hands it to the
\* widget, whose handlers may send actions
HandleOther ==
    /\ \E acts \in WidgetSends :
        LET p == pop_action(send_all(action, acts))
        IN  /\ action' = p.action
            /\ ret' = p.ret
            /\ sent' = {}
            /\ last' = [op |-> "other", acts |-> acts, pre |-> win_pre]
    /\ UNCHANGED <<sc_desc, hidpi_factor, inner_size, queue, clip_regions,
                   passes, scale_buf, draw_hist, timer_vars>>

WinNext ==
    \/ HandleResized
    \/ HandleHiDpiFactorChanged
    \/ HandleRedrawRequested
    \/ HandleOther

SpecWin == WinInit /\ [][WinNext]_vars

----------------------------------------------------------------------------
(* Widgets driven directly: actions are sent and popped one call at a time *)

\* TkWindow::send_action(action)
SendAction ==
    /\ \E a \in Range(TkActions) :
        /\ action' = send_action(action, a)
        /\ sent' = sent \cup {a}
        /\ last' = [op |-> "send_action", action |-> a, pre |-> win_pre]
    /\ ret' = "unit"
    /\ UNCHANGED <<sc_desc, hidpi_factor, inner_size, queue, clip_regions,
                   passes, scale_buf, draw_hist, timer_vars>>

\* Widgets::pop_action()
PopAction ==
    LET p == pop_action(action)
    IN  /\ action' = p.action
        /\ ret' = p.ret
        /\ sent' = {}
        /\ last' = [op |-> "pop_action", prev |-> last.op, prev_ret |-> ret,
                    pre |-> win_pre]
        /\ UNCHANGED <<sc_desc, hidpi_factor, inner_size, queue, clip_regions,
                       passes, scale_buf, draw_hist, timer_vars>>

ActionNext == SendAction \/ PopAction \/ HandleOther

SpecAction == WinInit /\ [][ActionNext]_vars

----------------------------------------------------------------------------
(* Window timeouts.  Instants and durations are whole numbers of ticks; a  *)
(* timeout is [id, time, period] with period None for a one-shot.          *)

\* Option: None and Some(x)
None == <<>>
Some(x) == << x >>

\* bounds on the timeouts held and on the clock at the start of a call
MaxTimeouts == 3
MaxNow == 2

\* timeout.1 after `while timeout.1 <= Instant::now() { timeout.1 += dur }`
\* where the clock reads `clock` when the loop ends
RECURSIVE reschedule(_, _, _)
reschedule(time, dur, clock) ==
    IF time <= clock THEN reschedule(time + dur, dur, clock) ELSE time

\* faulty variant of remove: the first entry is removed whatever i is
remove_first(ts, i) == Tail(ts)

\* Vec::remove(i), i counted from 0
remove(ts, i) == SubSeq(ts, 1, i) \o SubSeq(ts, i + 2, Len(ts))

\* the loops of timer_resume from index i on: the for loop walks
\* timeouts[i..] with i at the entry in hand; a one-shot that is due breaks
\* out with i still at it, is removed, and the while loop starts the for
\* loop again at the same i.  clocks are the clock readings that end the
\* rescheduling loops, in order.
RECURSIVE timer_loop(_, _, _, _, _)
timer_loop(ts, i, instant, clocks, trig) ==
    IF i >= Len(ts) THEN [timeouts |-> ts, triggered |-> trig]
    ELSE LET t == ts[i + 1]
         IN  IF t.time # instant
             THEN timer_loop(ts, i + 1, instant, clocks, trig)
             ELSE IF t.period # None
             THEN timer_loop([ts EXCEPT ![i + 1].time =
                                  reschedule(t.time, t.period[1], Head(clocks))],
                             i + 1, instant, Tail(clocks), Append(trig, t.id))
             ELSE timer_loop(remove(ts, i), i, instant, clocks,
                             Append(trig, t.id))

\* Window::next_resume
RECURSIVE next_resume_from(_, _)
next_resume_from(next, ts) ==
    IF ts = <<>> THEN next
    ELSE next_resume_from(IF next = None THEN Some(Head(ts).time)
                          ELSE IF Head(ts).time < next[1]
                          THEN Some(Head(ts).time) ELSE next,
                          Tail(ts))
next_resume(ts) == next_resume_from(None, ts)

\* the readings of a clock that starts at t0 and advances by ticks[k]
\* before its k-th reading
RECURSIVE readings(_, _)
readings(t0, ticks) ==
    IF ticks = <<>> THEN <<>>
    ELSE << t0 + Head(ticks) >> \o readings(t0 + Head(ticks), Tail(ticks))

\* sequences over S of length n, and of length at most n
RECURSIVE SeqsOfLen(_, _)
SeqsOfLen(S, n) ==
    IF n = 0 THEN { <<>> }
    ELSE { Append(q, x) : q \in SeqsOfLen(S, n - 1), x \in S }
SeqsUpTo(S, n) == UNION { SeqsOfLen(S, k) : k \in 0..n }

\* periods of repeating timeouts, and the timeouts a window may hold
Periods == { 2 }
Timeouts ==
    [id : { 0, 1 }, time : { 1, 2 },
     period : { Some(dur) : dur \in Periods } \cup { None }]

\* what the widget's callbacks() may return: Start or Repeat(dur) each
Callbacks ==
    { [kind |-> "Start", dur |-> 0] }
        \cup { [kind |-> "Repeat", dur |-> dur] : dur \in Periods }

\* actions the triggered callbacks may send
CallbackSends == { << "Redraw" >> }

\* the window as the event loop may find it: the timeouts are those that
\* Window::init pushed, as earlier calls of timer_resume left them, and
\* one-shot entries, which the type of the field admits
TimerInit ==
    \E ts \in SeqsUpTo(Timeouts, MaxTimeouts) :
        LET size == to_physical(Size(2, 2), F1)
        IN  /\ inner_size = Size(2, 2)
            /\ hidpi_factor = F1
            /\ sc_desc = size
            /\ clip_regions = DrawPipe_new(size)
            /\ passes = <<>>
            /\ scale_buf = scale_factor(size)
            /\ queue = <<>>
            /\ action = "None"
            /\ sent = {}
            /\ timeouts = ts
            /\ now = 0
            /\ triggered = <<>>
            /\ issued = {0}
            /\ frame_adds = 0
            /\ queued_for = <<>>
            /\ custom = <<>>
            /\ last = [op |-> "new", size |-> size]
            /\ ret = "unit"

\* Window::init pushes one repeating timeout per Repeat callback
RECURSIVE init_timeouts(_, _, _, _)
init_timeouts(ts, cbs, i, t) ==
    IF i > Len(cbs) THEN ts
    ELSE init_timeouts(IF cbs[i].kind = "Start" THEN ts
                       ELSE Append(ts, [id |-> i - 1, time |-> t + cbs[i].dur,
                                        period |-> Some(cbs[i].dur)]),
                       cbs, i + 1, t)

\* Window::init(), called once on the window just constructed: every
\* callback is triggered, and the Repeat ones get a timeout
WindowInit ==
    /\ last.op = "new"
    /\ timeouts = <<>>
    /\ \E cbs \in SeqsUpTo(Callbacks, MaxTimeouts), t \in now..MaxNow,
          acts \in CallbackSends :
        LET ts == init_timeouts(timeouts, cbs, 1, t)
            sends == IF cbs = <<>> THEN <<>> ELSE acts
        IN  /\ timeouts' = ts
            /\ now' = t
            /\ triggered' = [i \in 1..Len(cbs) |-> i - 1]
            /\ action' = send_all(action, sends)
            /\ sent' = sent \cup Range(sends)
            /\ ret' = next_resume(ts)
            /\ last' = [op |-> "init", callbacks |-> cbs, pre |-> win_pre]
    /\ UNCHANGED <<sc_desc, hidpi_factor, inner_size, queue, clip_regions,
                   passes, scale_buf, draw_hist>>

\* the number of repeating timeouts due at instant
Due(ts, instant) ==
    Len(SelectSeq(ts, LAMBDA t : t.time = instant /\ t.period # None))

\* timer_resume(instant), called when the clock has reached instant; the
\* clock may advance between its readings
TimerResume ==
    /\ \E instant \in 1..MaxNow, acts \in CallbackSends :
       \E t0 \in now..MaxNow :
       \E ticks \in SeqsOfLen({ 0, 1 }, Due(timeouts, instant)) :
        LET clocks == readings(t0, ticks)
            done == timer_loop(timeouts, 0, instant, clocks, <<>>)
            sends == IF done.triggered = <<>> THEN <<>> ELSE acts
            p == pop_action(send_all(action, sends))
        IN  /\ instant <= t0
            /\ timeouts' = done.timeouts
            /\ triggered' = done.triggered
            /\ now' = IF clocks = <<>> THEN t0 ELSE clocks[Len(clocks)]
            /\ action' = p.action
            /\ sent' = {}
            /\ ret' = [action |-> p.ret, resume |-> next_resume(done.timeouts)]
            /\ last' = [op |-> "timer_resume", instant |-> instant,
                        timeouts |-> timeouts, now |-> t0, pre |-> win_pre]
    /\ UNCHANGED <<sc_desc, hidpi_factor, inner_size, queue, clip_regions,
                   passes, scale_buf, draw_hist>>

TimerNext == WindowInit \/ TimerResume

SpecTimer == TimerInit /\ [][TimerNext]_vars

----------------------------------------------------------------------------
(* Properties.  `last` is the call just made, last.pre the state it started *)
(* from, `ret` what it returned.                                            *)

\* the k-th smallest element of a set of indices
Nth(S, k) == CHOOSE i \in S : Cardinality({j \in S : j < i}) = k - 1

\* the vertices the call just made appended to the queue of its pass
Added ==
    LET q == IF last.pass < Len(passes) THEN passes[last.pass + 1] ELSE <<>>
    IN  SubSeq(q, QueueLen(last.pre.passes, last.pass) + 1, Len(q))

\* C1: after an orchestrator render() the clip-region list has length
\* exactly 1 and what remains is region 0, however many regions were added
\* and whatever was drawn during the frame.
C1_RegionsResetByRender ==
    last.op = "render" =>
        /\ Len(clip_regions) = 1
        /\ clip_regions[1] = last.pre.clip_regions[1]

C1_Witness ==
    /\ last.op = "render"
    /\ Len(last.pre.clip_regions) >= 3
    /\ TotalQueued(last.pre.passes) > 0

\* C2: add_clip_region(rect) appends rect at the end of the region list and
\* returns a handle whose pass index is the list length before the
\* insertion; the k-th region added in a frame gets index k and the rect
\* stored at that index is the rect passed in.
C2_AddClipRegionHandle ==
    last.op = "add_clip_region" =>
        /\ ret.Region = Len(last.pre.clip_regions)
        /\ Len(clip_regions) = Len(last.pre.clip_regions) + 1
        /\ SubSeq(clip_regions, 1, Len(last.pre.clip_regions)) = last.pre.clip_regions
        /\ ret.Region = frame_adds
        /\ clip_regions[ret.Region + 1] = last.rect

C2_Witness ==
    /\ last.op = "add_clip_region"
    /\ frame_adds = 2
    /\ last.rect # last.pre.clip_regions[2]
    /\ TotalQueued(passes) > 0


\* the command buffer returned by render, cut into its region passes
Begins == { i \in 1..Len(ret) : ret[i].op = "begin_render_pass" }
Drops == { i \in 1..Len(ret) : ret[i].op = "drop_rpass" }
Texts == { i \in 1..Len(ret) : ret[i].op = "draw_queued" }
IsCall(c) == c.op = "render"
\* the commands from the k-th begin_render_pass up to the next one (or the end)
Segment(k) ==
    SubSeq(ret, Nth(Begins, k),
           IF k < Cardinality(Begins) THEN Nth(Begins, k + 1) - 1 ELSE Len(ret))

\* a u32 holding the number n, 0 <= n < 65536
Num(n) == <<0, n>>
\* the u32 an i32 of small magnitude is cast to
Wrapped(n) == IF n >= 0 THEN <<0, n>> ELSE <<65535, 65536 + n>>

\* the render passes are as many as the regions, in list order, the first
\* with Clear and the others with Load, each followed at once by its scissor
\* command, and one text step ends the buffer with region 0's size
PassesInOrder(scissor_x(_), scissor_y(_)) ==
    LET regions == last.pre.clip_regions
        n == Len(regions)
    IN  /\ Cardinality(Begins) = n
        /\ \A k \in 1..n :
            LET i == Nth(Begins, k)
                sc == ret[i + 1]
            IN  /\ ret[i].load_op = (IF k = 1 THEN "Clear" ELSE "Load")
                /\ sc.op = "set_scissor_rect"
                /\ sc.x = scissor_x(regions[k])
                /\ sc.y = scissor_y(regions[k])
                /\ sc.w = Num(regions[k].size[1])
                /\ sc.h = Num(regions[k].size[2])
        /\ Cardinality({ i \in 1..Len(ret) : ret[i].op = "set_scissor_rect" }) = n
        /\ Texts = { Len(ret) }
        /\ ret[Len(ret)].w = Num(regions[1].size[1])
        /\ ret[Len(ret)].h = Num(regions[1].size[2])

RectX(r) == Num(r.pos[1])
RectY(r) == Num(r.pos[2])
CastX(r) == Wrapped(r.pos[1])
CastY(r) == Wrapped(r.pos[2])

\* C3 as stated: one render() with n regions opens exactly n region passes in
\* list order, the i-th scissored to region i's rectangle, the first with
\* load-op Clear and the later ones with Load, followed by exactly one text
\* step covering region 0's size.
C3_AsStated == last.op = "render" => PassesInOrder(RectX, RectY)

\* C3, amended: as above, with the i-th scissor rectangle being region i's
\* size and region i's position cast to u32, which is region i's rectangle
\* when its position is not negative and wraps modulo 2^32 when it is.
C3_PassPerRegion == last.op = "render" => PassesInOrder(CastX, CastY)

C3_Witness ==
    /\ last.op = "render"
    /\ Len(last.pre.clip_regions) >= 3
    /\ \E k \in 2..Len(last.pre.clip_regions) : last.pre.clip_regions[k].pos[1] < 0
    /\ \E k \in 2..Len(last.pre.clip_regions) : last.pre.clip_regions[k].pos[1] > 0

\* C4: within every region pass of render() the sub-pipelines' render is
\* called exactly once each in the order shaded-rect, shaded-round, custom
\* pipe, rounded tessellator, all with that pass's index, and the text layer
\* is drawn only after the last region pass has been closed.
C4_PipelineOrder ==
    last.op = "render" =>
        LET n == Len(last.pre.clip_regions)
        IN  /\ Cardinality(Begins) = n
            /\ Cardinality(Drops) = n
            /\ \A k \in 1..n :
                /\ SelectSeq(Segment(k), IsCall) =
                       << call_render("shaded_square", k - 1),
                          call_render("shaded_round", k - 1),
                          call_render("custom", k - 1),
                          call_render("flat_round", k - 1) >>
                \* the pass is closed after its calls and before the next opens
                /\ Segment(k)[Len(Segment(k)) - (IF k = n THEN 1 ELSE 0)].op = "drop_rpass"
            /\ \A t \in Texts : \A d \in Drops \cup Begins : d < t
            /\ Cardinality(Texts) = 1

C4_Witness ==
    /\ last.op = "render"
    /\ Len(last.pre.clip_regions) >= 3
    /\ \E i \in 1..Len(ret) : ret[i].op = "draw" /\ ret[i].count > 0


\* the draw commands and the vertex buffers bound in what the call returned
RetDraws == SelectSeq(ret, LAMBDA c : c.op = "draw")
RetBuffers == SelectSeq(ret, LAMBDA c : c.op = "set_vertex_buffers")

\* C5: after the tessellator's render(pass) returns, its queued-vertex count
\* for that pass is zero, and (the pass having a queue slot) the single draw
\* call it issued covered exactly the vertices queued for that pass before
\* the call.
C5_RenderDrainsPass ==
    last.op = "FlatRound::render" =>
        /\ QueueLen(passes, last.pass) = 0
        /\ last.pass < Len(last.pre.passes) =>
            LET queued == last.pre.passes[last.pass + 1]
            IN  /\ RetDraws = << [op |-> "draw", first |-> 0, count |-> Len(queued)] >>
                /\ RetBuffers = << [op |-> "set_vertex_buffers", buffer |-> queued] >>
                /\ ret[Len(ret)].op = "draw"

C5_Witness ==
    /\ last.op = "FlatRound::render"
    /\ last.pass < Len(last.pre.passes)
    /\ Len(last.pre.passes[last.pass + 1]) = 48
    /\ TotalQueued(passes) > 0

\* C6 as stated: after an orchestrator render() returns every per-pass queue
\* of the rounded tessellator is empty, whatever region handles (handles of
\* an earlier frame included) the preceding draw calls used.
C6_AsStated ==
    last.op = "render" => \A i \in 1..Len(passes) : passes[i] = <<>>

\* C7: the tessellator's render(pass) for a pass index without a queue slot
\* (pass >= length of the queue list) issues no draw call (records nothing)
\* and changes no queue.
C7_RenderOutOfRangeNoOp ==
    (last.op = "FlatRound::render" /\ last.pass >= Len(last.pre.passes)) =>
        /\ ret = <<>>
        /\ passes = last.pre.passes

C7_Witness ==
    /\ last.op = "FlatRound::render"
    /\ last.pass >= Len(last.pre.passes)
    /\ Len(last.pre.passes) > 0
    /\ TotalQueued(last.pre.passes) > 0

\* the sizes the vertices drawn by the render just made were queued under
DrawnFor ==
    LET pre == last.pre
    IN  UNION { { pre.queued_for[p][j] : j \in 1..Len(pre.queued_for[p]) } :
                p \in 1..f32_min(Len(pre.clip_regions), Len(pre.queued_for)) }

\* C8 as stated: in every sequence of draw calls, resize and render, the
\* vertices drawn by a render were all queued after the latest resize (here:
\* under the surface size the render runs with), and the scale-factor
\* uniform in effect is 2/size of the latest resize.
C8_AsStated ==
    last.op = "render" =>
        /\ DrawnFor \subseteq { clip_regions[1].size }
        /\ scale_buf = << [num |-> 4, den |-> 2 * clip_regions[1].size[1]],
                          [num |-> 4, den |-> 2 * clip_regions[1].size[2]] >>

\* rounded_frame just made: its rectangles' corners as integers
FrameCall == last.op = "rounded_frame"
OuterMin == last.outer.pos
OuterMax == << last.outer.pos[1] + last.outer.size[1],
               last.outer.pos[2] + last.outer.size[2] >>
InnerMin == last.inner.pos
InnerMax == << last.inner.pos[1] + last.inner.size[1],
               last.inner.pos[2] + last.inner.size[2] >>
OuterPositive == last.outer.size[1] > 0 /\ last.outer.size[2] > 0
\* a point lies within outer in dimension d
Within(v, d) == OuterMin[d] <= v[d] /\ v[d] <= OuterMax[d]
\* inner has no point in common with outer
InnerOutside ==
    \E d \in 1..2 : InnerMax[d] < OuterMin[d] \/ InnerMin[d] > OuterMax[d]
\* the position of a queued vertex, as integers (defined when it is integral)
PosOf(v) == << v.pos[1] \div 2, v.pos[2] \div 2 >>
\* the sanitised inner corners, read off the queued triangles: cc is the
\* middle vertex of the third triangle, dd the last vertex of the tenth
SanMin == PosOf(Added[8])
SanMax == PosOf(Added[30])

Violates(d) == ~Within(InnerMin, d) \/ ~Within(InnerMax, d)
OneDimViolation == (Violates(1) /\ ~Violates(2)) \/ (Violates(2) /\ ~Violates(1))

\* C10 as stated: when inner violates containment in only one dimension,
\* only that dimension of inner is collapsed to outer's top-left coordinate
\* and inner's coordinates in the other dimension are used unchanged.
C10_AsStated ==
    (FrameCall /\ OuterPositive /\ OneDimViolation) =>
        \A d \in 1..2 :
            /\ Violates(d) => SanMin[d] = OuterMin[d] /\ SanMax[d] = OuterMin[d]
            /\ ~Violates(d) => SanMin[d] = InnerMin[d] /\ SanMax[d] = InnerMax[d]

\* C10, amended: rounded_frame sanitises inner per corner, not per
\* dimension: when inner violates containment in only one dimension, an
\* inner corner lying outside outer is replaced in both dimensions by
\* outer's matching corner (the min corner by outer's top-left, the max
\* corner by outer's bottom-right), and an inner corner lying within outer
\* is used unchanged.
C10_SanitisedPerCorner ==
    (FrameCall /\ OuterPositive /\ OneDimViolation) =>
        /\ Len(Added) = 48
        /\ SanMin = (IF Within(InnerMin, 1) /\ Within(InnerMin, 2)
                     THEN InnerMin ELSE OuterMin)
        /\ SanMax = (IF Within(InnerMax, 1) /\ Within(InnerMax, 2)
                     THEN InnerMax ELSE OuterMax)

C10_Witness ==
    /\ FrameCall /\ OuterPositive /\ OneDimViolation
    /\ ~Within(InnerMin, 1) /\ Within(InnerMax, 1)
    /\ InnerMin[2] # OuterMin[2]
    /\ SanMin = OuterMin
    /\ SanMax = InnerMax

\* inner lies within outer: outer.min <= inner.min <= inner.max <= outer.max
Nested == \A d \in 1..2 : Within(InnerMin, d) /\ Within(InnerMax, d)

\* C11: rounded_frame enqueues exactly 16 triangles (48 vertices) into the
\* given pass for every correctly nested outer/inner pair (outer of positive
\* size, outer.min <= inner.min <= inner.max <= outer.max), and the
\* sanitised inner corners equal the inner rect passed in.
C11_NestedFrameQueues48 ==
    (FrameCall /\ OuterPositive /\ Nested) =>
        /\ Len(Added) = 48
        /\ SanMin = InnerMin
        /\ SanMax = InnerMax
        /\ passes = [ (IF Len(last.pre.passes) <= last.pass
                       THEN vec_resize(last.pre.passes, last.pass + 8)
                       ELSE last.pre.passes)
                      EXCEPT ![last.pass + 1] = @ \o Added ]

C11_Witness ==
    /\ FrameCall /\ OuterPositive /\ Nested
    /\ InnerMin[1] > OuterMin[1] /\ InnerMax[1] < OuterMax[1]
    /\ InnerMin[2] = OuterMax[2]
    /\ last.pass = 1
    /\ Len(Added) = 48

LineCall == last.op = "line"
DegenerateLine == LineCall /\ last.p1 = last.p2
\* the integer rectangles Rect can hold around the end points of the lines
LineRects == { Rect(Coord(x, y), Size(w, h)) :
                 x \in (0 - 4)..4, y \in (0 - 4)..4, w \in 0..6, h \in 0..6 }

\* C12 as stated: line(pass, p1, p1, radius, colour) leaves the tessellator
\* in the state circle(pass, {pos: p1 - radius, size: 2*radius}, radius,
\* colour) leaves it in from the same state, for every p1 and radius >= 0.
C12_AsStated ==
    (DegenerateLine /\ last.radius >= F0) =>
        \E rect \in LineRects :
            /\ Vec2_from(rect.pos) =
                   Vec2_sub(Vec2_from(last.p1), Vec2_splat(last.radius))
            /\ Vec2_from(rect.size) = Vec2_splat(f32_mul(last.radius, f32(2)))
            /\ passes = circle(last.pre.passes, last.pass, rect, last.radius,
                               last.col)

\* C13 as stated: a degenerate line (p1 == p2) with radius > 0 is drawn by
\* circle on a rect whose midpoint is p1 and whose side is exactly
\* 2*radius, also for non-integer radii and radii below 1.
C13_AsStated ==
    (DegenerateLine /\ last.radius > F0) =>
        LET rect == line_rect(last.p1, last.radius, last.cast)
            aa == Vec2_from(rect.pos)
            bb == Vec2_add(aa, Vec2_from(rect.size))
        IN  /\ passes = circle(last.pre.passes, last.pass, rect, last.radius,
                               last.col)
            /\ Vec2_half(Vec2_add(aa, bb)) = Vec2_from(last.p1)
            /\ Vec2_sub(bb, aa) = Vec2_splat(f32_mul(last.radius, f32(2)))
            /\ Len(Added) = 12
            /\ Added[2].pos = Vec2_from(last.p1)

\* the call just made appended Added to the queue of its pass, growing the
\* queue list first if the pass had no queue, and changed nothing else
AppendsToPass ==
    passes = [ (IF Len(last.pre.passes) <= last.pass
                THEN vec_resize(last.pre.passes, last.pass + PassBlock)
                ELSE last.pre.passes)
               EXCEPT ![last.pass + 1] = @ \o Added ]

\* C14: line with p1 # p2 and radius > 0 enqueues exactly 10 triangles (30
\* vertices) into the given pass, whatever the length, direction and radius,
\* and every vertex carries shape_param 0.
C14_LineQueues30 ==
    (LineCall /\ last.p1 # last.p2 /\ last.radius > F0) =>
        /\ Len(Added) = 30
        /\ \A i \in 1..Len(Added) : Added[i].inner = F0
        /\ AppendsToPass

C14_Witness ==
    /\ LineCall /\ last.radius = 5
    /\ last.p2 = Coord(last.p1[1] - 4, last.p1[2] + 3)
    /\ last.pass = 1
    /\ QueueLen(last.pre.passes, last.pass) > 0
    /\ Len(Added) = 30
    /\ Added[1].pos # Added[3].pos

CircleCall == last.op = "circle"
\* the corners and the midpoint of the rect passed to circle, as Vec2
RectMin == Vec2_from(last.rect.pos)
RectMax == Vec2_add(RectMin, Vec2_from(last.rect.size))
RectMid == Vec2(last.rect.pos[1] * 2 + last.rect.size[1],
                last.rect.pos[2] * 2 + last.rect.size[2])
RectCorners == { Vec2(x, y) : x \in { RectMin[1], RectMax[1] },
                              y \in { RectMin[2], RectMax[2] } }
\* two corners joined by a side of the rect
Adjacent(a, b) ==
    /\ a \in RectCorners /\ b \in RectCorners
    /\ (a[1] = b[1] /\ a[2] # b[2]) \/ (a[1] # b[1] /\ a[2] = b[2])

\* C15: circle enqueues exactly 4 triangles (12 vertices) for every rect of
\* positive width and height: a fan of four triangles, each made of the
\* rect's midpoint vertex and two adjacent corners, together covering all
\* four corners.
C15_CircleFan ==
    (CircleCall /\ last.rect.size[1] > 0 /\ last.rect.size[2] > 0) =>
        /\ Len(Added) = 12
        /\ AppendsToPass
        /\ \A t \in 0..3 :
            /\ Added[3 * t + 2].pos = RectMid
            /\ Adjacent(Added[3 * t + 1].pos, Added[3 * t + 3].pos)
        /\ { Added[i].pos : i \in 1..12 } = RectCorners \cup { RectMid }
        /\ Cardinality({ { Added[3 * t + 1].pos, Added[3 * t + 3].pos } :
                           t \in 0..3 }) = 4

C15_Witness ==
    /\ CircleCall
    /\ last.rect = Rect(Coord(0 - 1, 0), Size(1, 2))
    /\ last.pass = 1
    /\ QueueLen(last.pre.passes, last.pass) > 0
    /\ Len(Added) = 12
    /\ Cardinality(RectCorners) = 4

\* C16: circle with a rect of zero width or height enqueues no vertex and
\* leaves the pass queues, the length of the queue list included, as they
\* were.
C16_EmptyCircleNoOp ==
    (CircleCall /\ (last.rect.size[1] = 0 \/ last.rect.size[2] = 0)) =>
        /\ passes = last.pre.passes
        /\ Len(passes) = Len(last.pre.passes)
        /\ Len(Added) = 0

C16_Witness ==
    /\ CircleCall
    /\ last.rect.size[1] = 0 /\ last.rect.size[2] > 0
    /\ last.pass >= Len(last.pre.passes)
    /\ passes = <<>>

\* inner_radius limited to [0, 1]
Clamped(r) == IF r < F0 THEN F0 ELSE IF r > F1 THEN F1 ELSE r

\* C17: for every inner_radius outside [0, 1], circle and rounded_frame
\* queue exactly the vertices they queue for the clamped value, and the
\* shape_param of every vertex they enqueue lies in [0, 1].
C17_InnerRadiusClamped ==
    /\ CircleCall =>
        /\ passes = circle(last.pre.passes, last.pass, last.rect,
                           Clamped(last.inner_radius), last.col)
        /\ \A i \in 1..Len(Added) : F0 <= Added[i].inner /\ Added[i].inner <= F1
    /\ FrameCall =>
        /\ passes = rounded_frame(last.pre.passes, last.pass, last.outer,
                                  last.inner, Clamped(last.inner_radius), last.col)
        /\ \A i \in 1..Len(Added) : F0 <= Added[i].inner /\ Added[i].inner <= F1

C17_Witness ==
    /\ FrameCall
    /\ last.inner_radius > F1
    /\ Len(Added) = 48
    /\ Added[1].inner = F1

\* C18: region 0 always denotes the full window: the region list is never
\* empty, region 0 is at (0,0) and has the size given to the constructor or
\* to the most recent resize, and no add_clip_region, draw call or render
\* changes region 0.
C18_RegionZeroIsWindow ==
    /\ Len(clip_regions) >= 1
    /\ clip_regions[1].pos = Coord(0, 0)
    /\ last.op \in { "new", "resize" } => clip_regions[1].size = last.size
    /\ last.op \notin { "new", "resize" } =>
           clip_regions[1] = last.pre.clip_regions[1]
    /\ scale_buf = scale_factor(clip_regions[1].size)

C18_Witness ==
    /\ last.op = "render"
    /\ Len(last.pre.clip_regions) = 3
    /\ \E s \in DrawnFor : s # clip_regions[1].size
    /\ clip_regions = << Rect(Coord(0, 0), Size(6, 4)) >>

\* C19: between two renders the region list only grows by appending: its
\* length never decreases, and the rectangle stored at an index handed out
\* by add_clip_region is not changed by later add_clip_region, draw or
\* resize calls until the next render.
C19_RegionsOnlyAppended ==
    last.op \in { "add_clip_region", "circle", "rounded_frame", "line", "resize" } =>
        /\ Len(clip_regions) >= Len(last.pre.clip_regions)
        /\ Len(clip_regions) = frame_adds + 1
        /\ \A i \in 2..Len(last.pre.clip_regions) :
               clip_regions[i] = last.pre.clip_regions[i]

C19_Witness ==
    /\ last.op = "resize"
    /\ Len(last.pre.clip_regions) = 3
    /\ last.pre.clip_regions[2] # last.pre.clip_regions[3]
    /\ last.size # last.pre.clip_regions[1].size
    /\ clip_regions[3] = last.pre.clip_regions[3]

\* the sub-pipelines DrawPipe owns besides the text brush
Pipes == { "shaded_square", "shaded_round", "custom", "flat_round" }

\* C20: the orchestrator's resize(new_size) calls resize exactly once on
\* each of the shaded-rect, shaded-round, custom and rounded-tessellator
\* pipelines with new_size, recording into one command buffer, and leaves
\* the regions with index >= 1 and all queued geometry unchanged.
C20_ResizeForwarded ==
    last.op = "resize" =>
        /\ \A pipe \in Pipes :
               Cardinality({ i \in 1..Len(ret) :
                               ret[i] = call_resize(pipe, last.size) }) = 1
        /\ Cardinality({ i \in 1..Len(ret) : ret[i].op = "resize" }) = 4
        /\ Len(clip_regions) = Len(last.pre.clip_regions)
        /\ \A i \in 2..Len(clip_regions) :
               clip_regions[i] = last.pre.clip_regions[i]
        /\ passes = last.pre.passes

C20_Witness ==
    /\ last.op = "resize"
    /\ last.size # last.pre.clip_regions[1].size
    /\ Len(clip_regions) >= 2
    /\ TotalQueued(passes) >= 24
    /\ Len(ret) = 5

\* C21: custom(region, rect, param) calls the custom pipe's invoke exactly
\* once, with region's pass index and with rect and param as passed in, and
\* changes no other state of the orchestrator (region list, the queues of
\* the other pipelines).
C21_CustomForwarded ==
    last.op = "custom" =>
        /\ Len(custom) = Len(last.pre.custom) + 1
        /\ SubSeq(custom, 1, Len(last.pre.custom)) = last.pre.custom
        /\ custom[Len(custom)] =
               [pass |-> last.pass, rect |-> last.rect, param |-> last.param]
        /\ clip_regions = last.pre.clip_regions
        /\ passes = last.pre.passes
        /\ scale_buf = last.pre.scale_buf

C21_Witness ==
    /\ last.op = "custom"
    /\ last.pass = 2
    /\ Len(clip_regions) = 3
    /\ TotalQueued(passes) > 0
    /\ Len(custom) = 1

\* the call just made queued either nothing, leaving the queues as they
\* were, or exactly n vertices at the end of the queue of its pass
QueuedNoneOr(n) ==
    \/ Len(Added) = 0 /\ passes = last.pre.passes
    \/ Len(Added) = n /\ AppendsToPass

\* C22 as stated: for every input (zero-size rects, negative positions,
\* radius <= 0 or > 1, mis-nested inner/outer) line, circle and
\* rounded_frame return and enqueue either zero vertices or exactly 30, 12
\* and 48 vertices respectively into the requested pass.
C22_AsStated ==
    /\ LineCall => QueuedNoneOr(30)
    /\ CircleCall => QueuedNoneOr(12)
    /\ FrameCall => QueuedNoneOr(48)

\* C22, amended: for every such input the three calls return; circle
\* enqueues 0 or 12 vertices, rounded_frame 0 or 48, line with p1 # p2
\* exactly 30, and line with p1 = p2, which is drawn by circle, 0 or 12;
\* all into the requested pass.
C22_DrawCallCounts ==
    /\ (LineCall /\ last.p1 # last.p2) => (Len(Added) = 30 /\ AppendsToPass)
    /\ DegenerateLine => QueuedNoneOr(12)
    /\ CircleCall => QueuedNoneOr(12)
    /\ FrameCall => QueuedNoneOr(48)

C22_Witness ==
    /\ DegenerateLine
    /\ last.radius = 1
    /\ last.p1 = Coord(1, 0 - 1)
    /\ last.pass = 1
    /\ Len(last.pre.passes) = 0
    /\ Len(Added) = 12
    /\ Len(passes) = 1 + PassBlock

\* the queue of a pass, empty when the queue list has no slot for it
QueueOf(ps, p) == IF p < Len(ps) THEN ps[p + 1] ELSE <<>>
DrawCall == last.op \in { "line", "circle", "rounded_frame" }

\* C23: rounded_line, circle and rounded_frame called with region handle r
\* append vertices only at the end of the tessellator's queue for pass r, in
\* call order; the vertices already queued for pass r, the queues of every
\* other pass and the region list are unchanged.
C23_DrawAppendsToItsPass ==
    DrawCall =>
        LET old == QueueOf(last.pre.passes, last.pass)
            new == QueueOf(passes, last.pass)
        IN  /\ Len(new) >= Len(old)
            /\ SubSeq(new, 1, Len(old)) = old
            /\ new = old \o Added
            /\ Len(passes) >= Len(last.pre.passes)
            /\ \A p \in 0..Len(passes) :
                   p # last.pass => QueueOf(passes, p) = QueueOf(last.pre.passes, p)
            /\ clip_regions = last.pre.clip_regions

C23_Witness ==
    /\ last.op = "rounded_frame"
    /\ last.pass = 1
    /\ Len(clip_regions) >= 2
    /\ Len(QueueOf(last.pre.passes, 1)) = 12
    /\ Len(QueueOf(passes, 1)) = 60
    /\ passes[2][1] # passes[2][13]

\* C24: rounded_frame called with an outer rect of zero width or zero
\* height enqueues no vertices and leaves the tessellator unchanged,
\* whatever inner is.
C24_EmptyFrameNoOp ==
    (FrameCall /\ (last.outer.size[1] = 0 \/ last.outer.size[2] = 0)) =>
        /\ Len(Added) = 0
        /\ passes = last.pre.passes

C24_Witness ==
    /\ FrameCall
    /\ last.outer.size[1] > 0 /\ last.outer.size[2] = 0
    /\ last.inner.size[1] > 0 /\ last.inner.size[2] > 0
    /\ last.pass >= Len(last.pre.passes)
    /\ passes = <<>>

\* the inner corners after the first two sanitation steps of rounded_frame
AfterTwoSteps ==
    LET aa == Vec2_from(OuterMin)
        bb == Vec2_from(OuterMax)
        cc0 == Vec2_from(InnerMin)
        dd0 == Vec2_from(InnerMax)
    IN  [cc |-> IF ~Vec2_le(aa, cc0) \/ ~Vec2_le(cc0, bb) THEN aa ELSE cc0,
         dd |-> IF ~Vec2_le(aa, dd0) \/ ~Vec2_le(dd0, bb) THEN bb ELSE dd0]

\* C25: in rounded_frame, for every outer of positive size and every inner,
\* the corners satisfy outer.min <= inner.min <= inner.max <= outer.max
\* componentwise after the first two sanitation steps, so the third step
\* (inner.max := inner.min when inner.min exceeds inner.max) changes
\* nothing: the corners the geometry is built from are those of step two.
C25_ThirdStepIdle ==
    (FrameCall /\ OuterPositive) =>
        /\ Vec2_le(Vec2_from(OuterMin), AfterTwoSteps.cc)
        /\ Vec2_le(AfterTwoSteps.cc, AfterTwoSteps.dd)
        /\ Vec2_le(AfterTwoSteps.dd, Vec2_from(OuterMax))
        /\ Added[8].pos = AfterTwoSteps.cc
        /\ Added[30].pos = AfterTwoSteps.dd
        /\ \A d \in 1..2 : OuterMin[d] <= SanMin[d] /\ SanMin[d] <= SanMax[d]
                        /\ SanMax[d] <= OuterMax[d]

C25_Witness ==
    /\ FrameCall /\ OuterPositive
    /\ InnerMin[1] < OuterMin[1]
    /\ \A d \in 1..2 : OuterMin[d] < InnerMax[d] /\ InnerMax[d] < OuterMax[d]
    /\ SanMin = OuterMin /\ SanMax = InnerMax
    /\ Len(Added) = 48

\* C26 as stated: whenever rounded_frame enqueues vertices, the divisors
\* outer.min - inner.min and outer.max - inner.max of the anti-alias
\* offsets are non-zero in both dimensions, also after inner has been
\* sanitised, so that every enqueued vertex has a finite offset.
C26_AsStated ==
    (FrameCall /\ Len(Added) > 0) =>
        \A i \in 1..Len(Added) : \A d \in 1..2 : Added[i].off[d].den # 0

\* the tessellator's draws within a sequence of recorded commands
IsDraw(c) == c.op = "draw"
IsBuffer(c) == c.op = "set_vertex_buffers"

\* every non-empty queue of a pass that has a region is bound and drawn in
\* full exactly once, in the render pass of that region, whose scissor is
\* at the given position; the queue is empty afterwards, and nothing else
\* is drawn by the tessellator
QueuesDrawnOnce(scissor_x(_), scissor_y(_)) ==
    LET regions == last.pre.clip_regions
        n == Len(regions)
    IN  /\ Cardinality(Begins) = n
        /\ \A k \in 1..n :
            LET v == QueueOf(last.pre.passes, k - 1)
                seg == Segment(k)
            IN  v # <<>> =>
                /\ seg[2].op = "set_scissor_rect"
                /\ seg[2].x = scissor_x(regions[k])
                /\ seg[2].y = scissor_y(regions[k])
                /\ seg[2].w = Num(regions[k].size[1])
                /\ seg[2].h = Num(regions[k].size[2])
                /\ SelectSeq(seg, IsBuffer) =
                       << [op |-> "set_vertex_buffers", buffer |-> v] >>
                /\ SelectSeq(seg, IsDraw) =
                       << [op |-> "draw", first |-> 0, count |-> Len(v)] >>
                /\ QueueOf(passes, k - 1) = <<>>
        /\ Len(SelectSeq(ret, IsDraw)) =
               Cardinality({ k \in 1..n : k <= Len(last.pre.passes) })

\* C27 as stated: every vertex queued into tessellator pass r while region
\* r exists is drawn exactly once, by the next orchestrator render, inside
\* the render pass scissored to region r's rectangle, and in no other pass
\* and no later frame.
C27_AsStated == last.op = "render" => QueuesDrawnOnce(RectX, RectY)

\* C27, amended: as above, the render pass being the one of region r,
\* scissored to region r's size at region r's position cast to u32 (region
\* r's rectangle when its position is not negative).
C27_QueuedDrawnOnce == last.op = "render" => QueuesDrawnOnce(CastX, CastY)

C27_Witness ==
    /\ last.op = "render"
    /\ Len(last.pre.clip_regions) = 3
    /\ last.pre.clip_regions[3].pos[1] < 0
    /\ Len(QueueOf(last.pre.passes, 2)) = 12
    /\ Len(QueueOf(last.pre.passes, 0)) = 48
    /\ TotalQueued(passes) = 0


\* a command buffer made by DrawPipe::resize for the given size
IsResizeBuffer(buf, size) ==
    /\ \E i \in 1..Len(buf) : buf[i] = call_resize("flat_round", size)
    /\ \A i \in 1..Len(buf) : buf[i].op # "draw_queued"

\* a command buffer made by DrawPipe::render
IsRenderBuffer(buf) ==
    /\ buf # <<>>
    /\ buf[Len(buf)].op = "draw_queued"
    /\ \A i \in 1..Len(buf) : buf[i].op # "resize"

\* the event just handled was one that resizes, and the physical size it
\* brought
ResizeEvent == last.op \in { "Resized", "HiDpiFactorChanged" }
NewPhysicalSize == to_physical(last.size, hidpi_factor)

\* C28: after every window event the swap-chain dimensions equal the size of
\* region 0.  A Resized or HiDpiFactorChanged event whose physical size
\* differs from the swap-chain dimensions it found resizes region 0 to that
\* size and appends the draw pipe's resize buffer to the queue, after every
\* buffer submitted before and so ahead of every later render's buffer; one
\* whose physical size is the same submits nothing and leaves the regions
\* alone.
C28_SwapChainTracksRegion ==
    /\ sc_desc = clip_regions[1].size
    /\ ResizeEvent =>
        IF NewPhysicalSize # last.pre.sc_desc
        THEN /\ Len(queue) = Len(last.pre.queue) + 1
             /\ SubSeq(queue, 1, Len(last.pre.queue)) = last.pre.queue
             /\ IsResizeBuffer(queue[Len(queue)], NewPhysicalSize)
             /\ clip_regions[1].size = NewPhysicalSize
        ELSE /\ queue = last.pre.queue
             /\ clip_regions = last.pre.clip_regions
    /\ last.op = "RedrawRequested" =>
        /\ Len(queue) = Len(last.pre.queue) + 1
        /\ SubSeq(queue, 1, Len(last.pre.queue)) = last.pre.queue
        /\ IsRenderBuffer(queue[Len(queue)])

\* a frame is rendered, the DPI factor change that follows resizes, and the
\* next frame's buffer is queued behind the resize buffer
C28_Witness ==
    /\ last.op = "RedrawRequested"
    /\ Len(queue) = 3
    /\ IsRenderBuffer(queue[1])
    /\ IsResizeBuffer(queue[2], sc_desc)
    /\ sc_desc # to_physical(inner_size, F1)
    /\ IsRenderBuffer(queue[3])


\* the greatest action of a set, None for the empty set
MaxOf(S) ==
    IF S = {} THEN "None"
    ELSE CHOOSE a \in S : \A b \in S : rank(b) <= rank(a)

\* C29: the pending action is the greatest of the actions sent since the
\* last pop, None if there were none; pop_action returns the pending action
\* and leaves None pending, so a pop_action that directly follows another
\* returns None.
C29_PendingIsMaxSent ==
    /\ action = MaxOf(sent)
    /\ last.op = "pop_action" =>
        /\ ret = MaxOf(last.pre.sent)
        /\ action = "None"
        /\ last.prev = "pop_action" => ret = "None"
    /\ last.op = "other" =>
        /\ ret = MaxOf(last.pre.sent \cup Range(last.acts))
        /\ action = "None"

\* lesser actions were sent after a greater one, the first pop returned the
\* greater, and the pop that follows it returns None
C29_Witness ==
    /\ last.op = "pop_action"
    /\ last.prev = "pop_action"
    /\ last.prev_ret = "Close"
    /\ ret = "None"


\* the timeouts timer_resume found, those of them scheduled at its instant,
\* and those that are not one-shots scheduled at its instant
IsDueNow(t) == t.time = last.instant
DueNow == SelectSeq(last.timeouts, IsDueNow)
Remaining ==
    SelectSeq(last.timeouts, LAMBDA t : ~(IsDueNow(t) /\ t.period = None))

\* the least time of a non-empty sequence of timeouts
MinTime(ts) ==
    CHOOSE m \in { ts[k].time : k \in 1..Len(ts) } :
        \A k \in 1..Len(ts) : m <= ts[k].time

====
